---- MODULE Spec2Model ----
(***************************************************************************)
(* A model of mysql-sqlite-to-d1: the statement generator, the two         *)
(* transport strategies (direct execution and staged bulk import), the     *)
(* destination cleaning and the verification, as state machines whose      *)
(* steps are the awaited requests of the scripts.                          *)
(*                                                                         *)
(* The source database, the local staging engine and the destination are   *)
(* the environment: every request to them either succeeds or fails, and    *)
(* the model takes both outcomes wherever the collaborator can fail.       *)
(***************************************************************************)
EXTENDS Integers, Sequences, FiniteSets, TLC

---------------------------------------------------------------------------
(* Bounds of the model.                                                    *)

\* the largest number of statements parsed from the file given to uploadSQLFile
MaxStmts == 4
\* the largest explicit batchSize option given to uploadSQLFile
MaxBatchOpt == 3
\* the largest number of tables of the source
MaxTables == 2
\* the largest number of rows of a source table
MaxRows == 1
\* the largest number of polls that report a non-terminal status
MaxPolls == 2

---------------------------------------------------------------------------
(* Values.                                                                 *)

\* the reserved system table of the destination (part_000:190)
ReservedTable == "_cf_KV"

\* table names, in the order of ORDER BY name (part_000:160-163)
SourceNames == <<"posts", "tags", "users", "votes">>
TableOrder == <<ReservedTable>> \o SourceNames
AllTables == {TableOrder[n] : n \in 1..Len(TableOrder)}

\* a destination table that does not exist
Absent == 0 - 1

\* entries of the statement stream: what generateSQLFile pushes
Pragma == [kind |-> "pragma", tbl |-> "", row |-> 0]
Comment == [kind |-> "comment", tbl |-> "", row |-> 0]
\* the provenance comment with the time of the generation (the number of the
\* run stands for the clock; 0 is the time of an earlier process)
Generated(time) == [kind |-> "comment", tbl |-> "", row |-> time]
Create(t) == [kind |-> "create", tbl |-> t, row |-> 0]
Insert(t, r) == [kind |-> "insert", tbl |-> t, row |-> r]

\* a line of the console about one table: what it says, and the counts it
\* shows
ConsoleLine(says, t, a, b) == [says |-> says, tbl |-> t, a |-> a, b |-> b]

Min(a, b) == IF a < b THEN a ELSE b

\* Array.prototype.slice(from, to) with 0-based, end-exclusive indices
slice(s, from, to) == SubSeq(s, from + 1, Min(to, Len(s)))

\* the number of entries of s that satisfy Test
CountIf(s, Test(_)) == Len(SelectSeq(s, Test))

---------------------------------------------------------------------------
VARIABLES
    script,        \* the entry point that runs: "upload", "migrate", "start", "full"
    pc,            \* the position of the running script
    run,           \* 1 in the first run of the script, 2 in the run after it
    mysqlUrl,      \* process.env.MYSQL_URL: "missing", "malformed" or "ok"
    cfEnv,         \* whether the three Cloudflare variables are set
    srcTables,     \* the source catalog: table names in catalog order
    srcRows,       \* the source: table name -> number of rows
    options,       \* uploadSQLFile: the options argument
    fileExists,    \* whether ./temp/migration.sql exists
    file,          \* its entries
    d1,            \* the destination: table name -> number of rows, or Absent
    d1AfterRun,    \* the destination as the first run left it
    fileAfterRun,  \* the file as the first run left it
    log,           \* the requests submitted to the destination, in order
    conn,          \* the source connection: "none", "open" or "closed"
    dbHandles,     \* the number of open handles of the local staging database
    statements,    \* uploadSQLFile, migrateSQLiteToD1: the parsed statements
    i,             \* the index of the running loop
    results,       \* executeBatch: the results of the running batch
    successful,    \* uploadSQLFile
    failed,        \* uploadSQLFile
    errors,        \* uploadSQLFile
    sqlStatements, \* generateSQLFile: the statements built so far
    schemas,       \* migrateSQLiteToD1
    inserts,       \* migrateSQLiteToD1
    tableNames,    \* migrateSQLiteToD1
    existingTables, \* cleanD1Database: the enumerated tables
    matches,       \* verifyMigration
    mismatches,    \* verifyMigration
    sqlBuffer,     \* main of the full migration: the bytes of the file
    md5,           \* main of the full migration: their checksum
    bookmark,      \* main of the full migration: the bookmark given to pollImport
    console,       \* generateSQLFile, verifyMigration: the lines printed per table
    arg,           \* a call of one function alone: its argument
    ret            \* what the function called last returned

inputVars == <<script, mysqlUrl, cfEnv, srcTables, srcRows, options>>
runVars == <<run, d1AfterRun, fileAfterRun>>
fsVars == <<fileExists, file>>
destVars == <<d1, log>>
resVars == <<conn, dbHandles>>
uploadVars == <<results, successful, failed, errors>>
importVars == <<sqlBuffer, md5, bookmark>>
pureVars == <<arg, ret>>
migVars == <<schemas, inserts, tableNames, existingTables, matches,
            mismatches>>

vars == <<inputVars, pc, runVars, fsVars, destVars, resVars, statements, i,
          uploadVars, sqlStatements, migVars, importVars, console, pureVars>>

\* the locals of the scripts before they run
LocalsInit ==
    /\ statements = <<>> /\ i = 0
    /\ results = <<>> /\ successful = 0 /\ failed = 0 /\ errors = <<>>
    /\ sqlStatements = <<>>
    /\ schemas = <<>> /\ inserts = <<>> /\ tableNames = <<>>
    /\ existingTables = <<>> /\ matches = 0 /\ mismatches = 0
    /\ sqlBuffer = <<>> /\ md5 = 0 /\ bookmark = ""
    /\ console = <<>>

\* no function is called alone
NoCall == arg = "" /\ ret = ""

---------------------------------------------------------------------------
(* The destination (environment).                                          *)

EmptyD1 == [t \in AllTables |-> Absent]

\* whether the destination can execute the entry
D1CanExec(d, e) == e.kind = "insert" => d[e.tbl] # Absent

\* the destination after it executed the entry
D1Exec(d, e) ==
    CASE e.kind = "create" ->
            IF d[e.tbl] = Absent THEN [d EXCEPT ![e.tbl] = 0] ELSE d
      [] e.kind = "insert" -> [d EXCEPT ![e.tbl] = @ + 1]
      [] OTHER -> d

\* the destination after it executed the entries in order (one request)
RECURSIVE D1ExecAll(_, _)
D1ExecAll(d, es) ==
    IF es = <<>> THEN d ELSE D1ExecAll(D1Exec(d, Head(es)), Tail(es))

\* whether the destination can execute the entries in order
RECURSIVE D1CanExecAll(_, _)
D1CanExecAll(d, es) ==
    IF es = <<>> THEN TRUE
    ELSE /\ D1CanExec(d, Head(es))
         /\ D1CanExecAll(D1Exec(d, Head(es)), Tail(es))

\* a request as the log keeps it
Request(op, t, es, ok) ==
    [op |-> op, tbl |-> t, stmts |-> es, ok |-> ok, etag |-> 0, status |-> "",
     bookmark |-> "", result |-> <<>>]

---------------------------------------------------------------------------
(* CloudflareD1API.uploadSQLFile: the direct-execution strategy.           *)

\* CloudflareD1API.parseSQLFile on the entries of a file: the lines that
\* start with -- are skipped, every other entry is a statement
apiParseSQLFile(es) == SelectSeq(es, LAMBDA e : e.kind # "comment")

\* options.batchSize || 10: an absent (0) batch size is 10
DefaultBatchSize == 10
batchSizeOf(opt) == IF opt.batchSize = 0 THEN DefaultBatchSize ELSE opt.batchSize

\* the policy of a call that ignores the option
stopOnErrorIgnored(opt) == TRUE

\* options.stopOnError !== false: absent and true are both strict
stopOnErrorOf(opt) == opt.stopOnError # "false"

\* the batch that starts at index i
batchAt(stmts, k, opt) == slice(stmts, k, k + batchSizeOf(opt))

\* the file of n statements given to uploadSQLFile
UploadFile(n) ==
    <<Comment>> \o
    [j \in 1..n |->
        IF j = 1 THEN Pragma
        ELSE IF j = 2 THEN Create(SourceNames[1])
        ELSE Insert(SourceNames[1], j - 2)]

InitUpload ==
    /\ script = "upload"
    /\ pc = "uploadSQLFile"
    /\ run = 1
    /\ mysqlUrl = "ok" /\ cfEnv = TRUE
    /\ srcTables = <<>> /\ srcRows = [t \in AllTables |-> 0]
    /\ fileExists \in BOOLEAN
    /\ \E n \in 0..MaxStmts : file = UploadFile(n)
    /\ d1 = EmptyD1 /\ d1AfterRun = EmptyD1 /\ fileAfterRun = <<>>
    /\ log = <<>>
    /\ conn = "none" /\ dbHandles = 0
    /\ options \in [batchSize : 0..MaxBatchOpt,
                    stopOnError : {"undefined", "true", "false"}]
    /\ LocalsInit
    /\ NoCall

\* lines 159-176: the file is read and parsed, the counters start at zero
UploadStart ==
    /\ pc = "uploadSQLFile"
    /\ IF ~fileExists
       THEN /\ pc' = "thrown"
            /\ UNCHANGED statements
       ELSE /\ statements' = apiParseSQLFile(file)
            /\ pc' = IF Len(apiParseSQLFile(file)) > 0
                     THEN "executeBatch" ELSE "returned"
    /\ UNCHANGED <<console, pureVars, importVars, inputVars, runVars, fsVars, destVars, resVars, i,
                   uploadVars, sqlStatements, migVars>>

\* executeBatch, lines 69-80: one statement of the batch is submitted, and
\* its failure is caught and kept as a result
ExecuteQuery ==
    /\ pc = "executeBatch"
    /\ Len(results) < Len(batchAt(statements, i, options))
    /\ LET statement == batchAt(statements, i, options)[Len(results) + 1]
       IN \E ok \in BOOLEAN :
            /\ ok => D1CanExec(d1, statement)
            /\ log' = Append(log, Request("query", "", <<statement>>, ok))
            /\ d1' = IF ok THEN D1Exec(d1, statement) ELSE d1
            /\ results' = Append(results,
                                 [success |-> ok, statement |-> statement])
    /\ UNCHANGED <<console, pureVars, importVars, inputVars, pc, runVars, fsVars, resVars, statements, i,
                   successful, failed, errors, sqlStatements, migVars>>

\* the index of the first failed result, 0 when there is none
RECURSIVE FirstFailure(_, _)
FirstFailure(rs, n) ==
    IF n > Len(rs) THEN 0
    ELSE IF ~rs[n].success THEN n ELSE FirstFailure(rs, n + 1)

\* the error entries that lines 192-196 push for the failed results
errorsOf(rs, batchNumber) ==
    LET fs == SelectSeq(rs, LAMBDA r : ~r.success)
    IN [n \in 1..Len(fs) |->
            [batch |-> batchNumber, statement |-> fs[n].statement]]

\* a count that charges the whole batch, as the catch of lines 209-215 does,
\* for a batch with a failed result
ProcessResultsChargesBatch ==
    /\ pc = "executeBatch"
    /\ Len(results) = Len(batchAt(statements, i, options))
    /\ LET batchSize == batchSizeOf(options)
           batchNumber == (i \div batchSize) + 1
           first == FirstFailure(results, 1)
           seen == IF stopOnErrorOf(options) /\ first > 0
                   THEN SubSeq(results, 1, first) ELSE results
       IN /\ successful' = successful + CountIf(seen, LAMBDA r : r.success)
          /\ failed' = failed + CountIf(seen, LAMBDA r : ~r.success)
                         + (IF first > 0 THEN Len(results) ELSE 0)
          /\ errors' = errors \o errorsOf(seen, batchNumber)
          /\ IF stopOnErrorOf(options) /\ first > 0
             THEN /\ pc' = "thrown"
                  /\ UNCHANGED <<i, results>>
             ELSE /\ i' = i + batchSize
                  /\ results' = <<>>
                  /\ pc' = IF i + batchSize < Len(statements)
                           THEN "executeBatch" ELSE "returned"
    /\ UNCHANGED <<console, pureVars, importVars, inputVars, runVars, fsVars, destVars, resVars,
                   statements, sqlStatements, migVars>>

\* lines 187-222: the results of the batch are counted; in strict mode the
\* first failed result throws, and the throw leaves the loop and the call
ProcessResults ==
    /\ pc = "executeBatch"
    /\ Len(results) = Len(batchAt(statements, i, options))
    /\ LET batchSize == batchSizeOf(options)
           batchNumber == (i \div batchSize) + 1
           first == FirstFailure(results, 1)
           seen == IF stopOnErrorOf(options) /\ first > 0
                   THEN SubSeq(results, 1, first) ELSE results
       IN /\ successful' = successful + CountIf(seen, LAMBDA r : r.success)
          /\ failed' = failed + CountIf(seen, LAMBDA r : ~r.success)
          /\ errors' = errors \o errorsOf(seen, batchNumber)
          /\ IF stopOnErrorOf(options) /\ first > 0
             THEN /\ pc' = "thrown"
                  /\ UNCHANGED <<i, results>>
             ELSE /\ i' = i + batchSize
                  /\ results' = <<>>
                  /\ pc' = IF i + batchSize < Len(statements)
                           THEN "executeBatch" ELSE "returned"
    /\ UNCHANGED <<console, pureVars, importVars, inputVars, runVars, fsVars, destVars, resVars,
                   statements, sqlStatements, migVars>>

NextUpload == UploadStart \/ ExecuteQuery \/ ProcessResults

SpecUpload == InitUpload /\ [][NextUpload]_vars

---------------------------------------------------------------------------
(* The scripts end in one of three ways.                                   *)

\* the script ran to its end: the process ends with code 0
Done == "done"
\* process.exit(1): the process ends at once, no finally block runs
Exit1 == "exit1"
\* main() rejected with nobody to catch it: the process ends with a failure
Rejected == "rejected"

Ended == pc \in {Done, Exit1, Rejected}

\* closeConnection, mysql-to-sqlite.js:369-374: ends the connection if there
\* is one
disconnect(c) == IF c = "open" THEN "closed" ELSE c

---------------------------------------------------------------------------
(* MySQLToSQLiteMigrator.generateSQLFile, with the source as environment.  *)

\* INSERT statements of the rows of one table, the last row first
InsertsOfTableReversed(t, n) == [r \in 1..n |-> Insert(t, n + 1 - r)]

\* the INSERT statements of the rows of one table, in fetch order
InsertsOfTable(t, n) == [r \in 1..n |-> Insert(t, r)]

\* the statements generateSQLFile writes when every query succeeds
RECURSIVE InsertsOf(_, _)
InsertsOf(tables, rows) ==
    IF tables = <<>> THEN <<>>
    ELSE InsertsOfTable(Head(tables), rows[Head(tables)])
            \o InsertsOf(Tail(tables), rows)

StreamOf(tables, rows) ==
    <<Pragma, Comment, Generated(0)>>
        \o [n \in 1..Len(tables) |-> Create(tables[n])]
        \o InsertsOf(tables, rows)
        \o <<Comment>>

\* where a throw of generateSQLFile (or of connectToMySQL) lands: the finally
\* of generateMigrationFile (part_000:151-153) and of main of the start
\* script (mysql-to-sqlite.js:664-678) disconnect, and both scripts then end
\* with process.exit(1) (part_000:381-384, mysql-to-sqlite.js:685-688); the
\* catch of main of the full migration (test-d1-connection.js:326-329) calls
\* process.exit(1) itself, so its finally never runs
GenThrow ==
    /\ conn' = IF script = "full" THEN conn ELSE disconnect(conn)
    /\ pc' = Exit1

\* a start that keeps the statements of an earlier call instead of the empty
\* list of line 202
GenStartAppends ==
    /\ pc = "generateSQLFile"
    /\ fileExists' = FALSE
    /\ file' = <<>>
    /\ \E ok \in BOOLEAN :
        IF ok
        THEN /\ sqlStatements' = sqlStatements \o <<Pragma, Comment, Generated(run)>>
             /\ i' = 0
             /\ pc' = IF Len(srcTables) > 0 THEN "genSchema" ELSE "genData"
             /\ UNCHANGED conn
        ELSE /\ GenThrow
             /\ UNCHANGED <<sqlStatements, i>>
    /\ UNCHANGED <<console, pureVars, importVars, inputVars, runVars, destVars, dbHandles, statements,
                   uploadVars, migVars>>

\* a start that leaves the file of an earlier generation in place
GenStartKeepsFile ==
    /\ pc = "generateSQLFile"
    /\ \E ok \in BOOLEAN :
        IF ok
        THEN /\ sqlStatements' = <<Pragma, Comment, Generated(run)>>
             /\ i' = 0
             /\ pc' = IF Len(srcTables) > 0 THEN "genSchema" ELSE "genData"
             /\ UNCHANGED conn
        ELSE /\ GenThrow
             /\ UNCHANGED <<sqlStatements, i>>
    /\ UNCHANGED <<console, pureVars, importVars, inputVars, runVars, fsVars, destVars, dbHandles, statements,
                   uploadVars, migVars>>

\* lines 193-209: the old file is removed, the catalog is read, the pragma
\* and the two provenance comments are pushed
GenStart ==
    /\ pc = "generateSQLFile"
    /\ fileExists' = FALSE
    /\ file' = <<>>
    /\ \E ok \in BOOLEAN :
        IF ok
        THEN /\ sqlStatements' = <<Pragma, Comment, Generated(run)>>
             /\ i' = 0
             /\ pc' = IF Len(srcTables) > 0 THEN "genSchema" ELSE "genData"
             /\ UNCHANGED conn
        ELSE /\ GenThrow
             /\ UNCHANGED <<sqlStatements, i>>
    /\ UNCHANGED <<console, pureVars, importVars, inputVars, runVars, destVars, dbHandles, statements,
                   uploadVars, migVars>>

\* lines 211-251: the columns and the foreign keys of one table are read and
\* its CREATE TABLE is pushed; a failed query throws
GenSchema ==
    /\ pc = "genSchema"
    /\ \E ok \in BOOLEAN :
        IF ok
        THEN /\ sqlStatements' = Append(sqlStatements, Create(srcTables[i + 1]))
             /\ i' = IF i + 1 < Len(srcTables) THEN i + 1 ELSE 0
             /\ pc' = IF i + 1 < Len(srcTables) THEN "genSchema" ELSE "genData"
             /\ UNCHANGED conn
        ELSE /\ GenThrow
             /\ UNCHANGED <<sqlStatements, i>>
    /\ UNCHANGED <<console, pureVars, importVars, inputVars, runVars, fsVars, destVars, dbHandles, statements,
                   uploadVars, migVars>>

\* a data phase without the try of lines 258-317: a failed query throws
GenDataThrows ==
    /\ pc = "genData"
    /\ i < Len(srcTables)
    /\ LET tableName == srcTables[i + 1]
           rows == srcRows[tableName]
       IN \E ok \in BOOLEAN :
            IF ~ok
            THEN /\ GenThrow
                 /\ console' = Append(console,
                        ConsoleLine("Error generating data", tableName, 0, 0))
                 /\ UNCHANGED <<sqlStatements, i>>
            ELSE /\ sqlStatements' =
                        sqlStatements \o InsertsOfTable(tableName, rows)
                 /\ console' = Append(console,
                        ConsoleLine("Generated", tableName, rows, 0))
                 /\ i' = i + 1
                 /\ UNCHANGED <<pc, conn>>
    /\ UNCHANGED <<pureVars, importVars, inputVars, runVars, fsVars, destVars, dbHandles,
                   statements, uploadVars, migVars>>

\* lines 255-318: the rows of one table are read and one INSERT per row is
\* pushed; a table without rows is skipped; a failed query (of the rows, or
\* of the columns at line 268) is caught and skips the table
GenData ==
    /\ pc = "genData"
    /\ i < Len(srcTables)
    /\ LET tableName == srcTables[i + 1]
           rows == srcRows[tableName]
       IN \E ok \in BOOLEAN :
            IF ~ok
            THEN \* lines 313-317
                 /\ console' = Append(console,
                        ConsoleLine("Error generating data", tableName, 0, 0))
                 /\ UNCHANGED sqlStatements
            ELSE IF rows = 0
            THEN \* lines 260-263
                 /\ console' = Append(console,
                        ConsoleLine("No data found", tableName, 0, 0))
                 /\ UNCHANGED sqlStatements
            ELSE \* lines 265-311
                 /\ sqlStatements' =
                        sqlStatements \o InsertsOfTable(tableName, rows)
                 /\ console' = Append(console,
                        ConsoleLine("Generated", tableName, rows, 0))
    /\ i' = i + 1
    /\ UNCHANGED <<pureVars, importVars, inputVars, pc, runVars, fsVars, destVars, resVars,
                   statements, uploadVars, migVars>>

\* totalRows, lines 254-311: the sum of the insertCount of the tables
RECURSIVE totalRows(_)
totalRows(lines) ==
    IF lines = <<>> THEN 0
    ELSE (IF Head(lines).says = "Generated" THEN Head(lines).a ELSE 0)
            + totalRows(Tail(lines))

\* an end of generateSQLFile that returns the number of data rows
GenWriteReturnsRows ==
    /\ pc = "genData"
    /\ i = Len(srcTables)
    /\ sqlStatements' = Append(sqlStatements, Comment)
    /\ fileExists' = TRUE
    /\ file' = Append(sqlStatements, Comment)
    /\ ret' = totalRows(console)
    /\ i' = 0
    /\ pc' = "generated"
    /\ UNCHANGED <<console, arg, importVars, inputVars, runVars, destVars, resVars, statements,
                   uploadVars, migVars>>

\* lines 320-331: the summary comment is pushed, the file is written and the
\* number of statements is returned
GenWrite ==
    /\ pc = "genData"
    /\ i = Len(srcTables)
    /\ sqlStatements' = Append(sqlStatements, Comment)
    /\ fileExists' = TRUE
    /\ file' = Append(sqlStatements, Comment)
    /\ ret' = Len(Append(sqlStatements, Comment))
    /\ i' = 0
    /\ pc' = "generated"
    /\ UNCHANGED <<console, arg, importVars, inputVars, runVars, destVars, resVars, statements,
                   uploadVars, migVars>>

---------------------------------------------------------------------------
(* The migrate script (part_000): direct execution.                        *)

\* parseSQLFile, lines 40-61, on the entries of a file: comment and PRAGMA
\* lines are skipped
parseSQLFile(es) == SelectSeq(es, LAMBDA e : e.kind \notin {"comment", "pragma"})

\* categorizeStatements, lines 72-86
categorizeStatements(stmts) ==
    [schemas |-> SelectSeq(stmts, LAMBDA e : e.kind = "create"),
     inserts |-> SelectSeq(stmts, LAMBDA e : e.kind = "insert")]

\* extractTableName, lines 101-113
extractTableName(e) == e.tbl

\* getTableNames, lines 116-127: the names in the order of their first use
RECURSIVE getTableNames(_)
getTableNames(stmts) ==
    IF stmts = <<>> THEN <<>>
    ELSE LET before == getTableNames(SubSeq(stmts, 1, Len(stmts) - 1))
             name == extractTableName(stmts[Len(stmts)])
         IN IF \E n \in 1..Len(before) : before[n] = name
            THEN before ELSE Append(before, name)

\* a batching that keeps the full batches only
RECURSIVE createFullBatches(_, _)
createFullBatches(stmts, batchSize) ==
    IF Len(stmts) < batchSize THEN <<>>
    ELSE <<slice(stmts, 0, batchSize)>>
            \o createFullBatches(slice(stmts, batchSize, Len(stmts)), batchSize)

\* createBatches, lines 89-98: a batch is the text of its statements joined
\* with newlines, kept here as the sequence of these statements
InsertBatchSize == 200
RECURSIVE createBatches(_, _)
createBatches(stmts, batchSize) ==
    IF stmts = <<>> THEN <<>>
    ELSE <<slice(stmts, 0, batchSize)>>
            \o createBatches(slice(stmts, batchSize, Len(stmts)), batchSize)

\* getAllD1Tables, lines 156-172, when its query succeeds: the tables of the
\* destination in the order of their names
d1TableList(d) == SelectSeq(TableOrder, LAMBDA t : d[t] # Absent)

\* a cleaning that drops every enumerated table
tablesToDropUnfiltered(tables) == tables

\* line 190: the reserved table is never dropped
tablesToDrop(tables) == SelectSeq(tables, LAMBDA t : t # ReservedTable)

\* executeD1RawSQL: one request to the destination, which the log keeps
Submit(op, t, es, ok) == log' = Append(log, Request(op, t, es, ok))

\* lines 373-386: main checks the Cloudflare variables
MigrateMain ==
    /\ script = "migrate"
    /\ pc = "main"
    /\ pc' = IF cfEnv THEN "migrateSQLiteToD1" ELSE Rejected
    /\ UNCHANGED <<console, pureVars, importVars, inputVars, runVars, fsVars, destVars, resVars, statements,
                   i, uploadVars, sqlStatements, migVars>>

\* lines 215-218 and 129-140: without a file, generateMigrationFile checks
\* and parses MYSQL_URL and connects to the source
MigrateStart ==
    /\ pc = "migrateSQLiteToD1"
    /\ IF fileExists
       THEN /\ pc' = "parse"
            /\ UNCHANGED conn
       ELSE IF mysqlUrl # "ok"
       THEN /\ pc' = Exit1
            /\ UNCHANGED conn
       ELSE \E ok \in BOOLEAN :
            IF ok
            THEN /\ conn' = "open"
                 /\ pc' = "generateSQLFile"
            ELSE GenThrow
    /\ UNCHANGED <<console, pureVars, importVars, inputVars, runVars, fsVars, destVars, dbHandles, statements,
                   i, uploadVars, sqlStatements, migVars>>

\* lines 141-153: the generated file is validated (a warning at most) and the
\* source connection is closed
MigrateGenerated ==
    /\ script = "migrate"
    /\ pc = "generated"
    /\ conn' = disconnect(conn)
    /\ pc' = "parse"
    /\ UNCHANGED <<console, pureVars, importVars, inputVars, runVars, fsVars, destVars, dbHandles, statements,
                   i, uploadVars, sqlStatements, migVars>>

\* lines 220-229: the file is parsed and its statements are categorized
MigrateParse ==
    /\ pc = "parse"
    /\ statements' = parseSQLFile(file)
    /\ schemas' = categorizeStatements(parseSQLFile(file)).schemas
    /\ inserts' = categorizeStatements(parseSQLFile(file)).inserts
    /\ tableNames' = getTableNames(
            categorizeStatements(parseSQLFile(file)).schemas
                \o categorizeStatements(parseSQLFile(file)).inserts)
    /\ pc' = "cleanD1Database"
    /\ UNCHANGED <<console, pureVars, importVars, inputVars, runVars, fsVars, destVars, resVars, i,
                   uploadVars, sqlStatements, existingTables, matches,
                   mismatches>>

\* a throw inside the try of migrateSQLiteToD1 (lines 280-286) is rethrown to
\* main, which ends the process (lines 381-384)
MigrateThrow == pc' = Exit1

\* lines 175-179: cleaning starts by disabling the foreign keys
CleanPragma ==
    /\ pc = "cleanD1Database"
    /\ \E ok \in BOOLEAN :
        /\ Submit("pragmaOff", "", <<>>, ok)
        /\ IF ok THEN pc' = "cleanList" ELSE MigrateThrow
    /\ UNCHANGED <<console, pureVars, importVars, inputVars, runVars, fsVars, d1, resVars, statements, i,
                   uploadVars, sqlStatements, migVars>>

\* lines 182-191: the tables are enumerated (a failure counts as no table);
\* without a table cleaning is over
CleanList ==
    /\ pc = "cleanList"
    /\ \E ok \in BOOLEAN :
        LET tables == IF ok THEN d1TableList(d1) ELSE <<>>
        IN /\ Submit("list", "", <<>>, ok)
           /\ existingTables' = tables
           /\ pc' = IF Len(tables) = 0 THEN "configure"
                    ELSE IF Len(tablesToDrop(tables)) = 0
                    THEN "cleanCheck" ELSE "cleanDrop"
    /\ i' = 0
    /\ UNCHANGED <<console, pureVars, importVars, inputVars, runVars, fsVars, d1, resVars, statements,
                   uploadVars, sqlStatements, schemas, inserts, tableNames,
                   matches, mismatches>>

\* lines 193-200: one table is dropped; a failure is a warning
CleanDrop ==
    /\ pc = "cleanDrop"
    /\ \E ok \in BOOLEAN :
        /\ Submit("drop", tablesToDrop(existingTables)[i + 1], <<>>, ok)
        /\ d1' = IF ok
                 THEN [d1 EXCEPT ![tablesToDrop(existingTables)[i + 1]] = Absent]
                 ELSE d1
    /\ i' = IF i + 1 < Len(tablesToDrop(existingTables)) THEN i + 1 ELSE 0
    /\ pc' = IF i + 1 < Len(tablesToDrop(existingTables))
             THEN "cleanDrop" ELSE "cleanCheck"
    /\ UNCHANGED <<console, pureVars, importVars, inputVars, runVars, fsVars, resVars, statements,
                   uploadVars, sqlStatements, migVars>>

\* lines 202-208: the tables are enumerated again, for the report only
CleanCheck ==
    /\ pc = "cleanCheck"
    /\ \E ok \in BOOLEAN : Submit("list", "", <<>>, ok)
    /\ pc' = "configure"
    /\ UNCHANGED <<console, pureVars, importVars, inputVars, runVars, fsVars, d1, resVars, statements, i,
                   uploadVars, sqlStatements, migVars>>

\* lines 235-240: the foreign keys are disabled once more
Configure ==
    /\ pc = "configure"
    /\ \E ok \in BOOLEAN :
        /\ Submit("pragmaOff", "", <<>>, ok)
        /\ IF ~ok THEN MigrateThrow
           ELSE pc' = IF Len(schemas) > 0 THEN "createSchema"
                      ELSE IF Len(inserts) > 0 THEN "insertBatch"
                      ELSE "enable"
    /\ i' = 0
    /\ UNCHANGED <<console, pureVars, importVars, inputVars, runVars, fsVars, d1, resVars, statements,
                   uploadVars, sqlStatements, migVars>>

\* a schema loop that catches the failure of a CREATE TABLE, as the drop loop
\* of the cleaning does, and goes on
CreateSchemaCaught ==
    /\ pc = "createSchema"
    /\ \E ok \in BOOLEAN :
        /\ Submit("schema", extractTableName(schemas[i + 1]),
                  <<schemas[i + 1]>>, ok)
        /\ d1' = IF ok THEN D1Exec(d1, schemas[i + 1]) ELSE d1
    /\ i' = IF i + 1 < Len(schemas) THEN i + 1 ELSE 0
    /\ pc' = IF i + 1 < Len(schemas) THEN "createSchema"
             ELSE IF Len(inserts) > 0 THEN "insertBatch"
             ELSE "enable"
    /\ UNCHANGED <<console, pureVars, importVars, inputVars, runVars, fsVars, resVars, statements,
                   uploadVars, sqlStatements, migVars>>

\* lines 242-250: one CREATE TABLE is submitted; a failure throws
CreateSchema ==
    /\ pc = "createSchema"
    /\ \E ok \in BOOLEAN :
        /\ Submit("schema", extractTableName(schemas[i + 1]),
                  <<schemas[i + 1]>>, ok)
        /\ d1' = IF ok THEN D1Exec(d1, schemas[i + 1]) ELSE d1
        /\ IF ~ok THEN MigrateThrow /\ UNCHANGED i
           ELSE /\ i' = IF i + 1 < Len(schemas) THEN i + 1 ELSE 0
                /\ pc' = IF i + 1 < Len(schemas) THEN "createSchema"
                         ELSE IF Len(inserts) > 0 THEN "insertBatch"
                         ELSE "enable"
    /\ UNCHANGED <<console, pureVars, importVars, inputVars, runVars, fsVars, resVars, statements,
                   uploadVars, sqlStatements, migVars>>

\* lines 252-262: one batch of INSERTs is submitted as one request; a failure
\* throws
InsertBatch ==
    /\ pc = "insertBatch"
    /\ LET insertBatches == createBatches(inserts, InsertBatchSize)
       IN \E ok \in BOOLEAN :
            /\ ok => D1CanExecAll(d1, insertBatches[i + 1])
            /\ Submit("insert", "", insertBatches[i + 1], ok)
            /\ d1' = IF ok THEN D1ExecAll(d1, insertBatches[i + 1]) ELSE d1
            /\ IF ~ok THEN MigrateThrow /\ UNCHANGED i
               ELSE /\ i' = IF i + 1 < Len(insertBatches) THEN i + 1 ELSE 0
                    /\ pc' = IF i + 1 < Len(insertBatches)
                             THEN "insertBatch" ELSE "enable"
    /\ UNCHANGED <<console, pureVars, importVars, inputVars, runVars, fsVars, resVars, statements,
                   uploadVars, sqlStatements, migVars>>

\* lines 267-278: the foreign keys are enabled again; then the migration is
\* verified if MYSQL_URL is set
EnableForeignKeys ==
    /\ pc = "enable"
    /\ \E ok \in BOOLEAN :
        /\ Submit("pragmaOn", "", <<>>, ok)
        /\ IF ~ok THEN MigrateThrow
           ELSE pc' = IF mysqlUrl # "missing" THEN "verifyMigration" ELSE Done
    /\ UNCHANGED <<console, pureVars, importVars, inputVars, runVars, fsVars, d1, resVars, statements, i,
                   uploadVars, sqlStatements, migVars>>

\* lines 289-315: verifyMigration enumerates the destination tables (for the
\* report) and parses MYSQL_URL, outside of its try
VerifyStart ==
    /\ pc = "verifyMigration"
    /\ \E ok \in BOOLEAN : Submit("list", "", <<>>, ok)
    /\ IF mysqlUrl = "malformed" THEN MigrateThrow ELSE pc' = "verifyConnect"
    /\ UNCHANGED <<console, pureVars, importVars, inputVars, runVars, fsVars, d1, resVars, statements, i,
                   uploadVars, sqlStatements, migVars>>

\* lines 317-324 and 366-370: the source is connected; a failure is a warning
\* and ends the verification
VerifyConnect ==
    /\ pc = "verifyConnect"
    /\ \E ok \in BOOLEAN :
        IF ok
        THEN /\ conn' = "open"
             /\ pc' = "verifyTable"
        ELSE /\ conn' = disconnect(conn)
             /\ pc' = Done
    /\ i' = 0
    /\ matches' = 0
    /\ mismatches' = 0
    /\ UNCHANGED <<console, pureVars, importVars, inputVars, runVars, fsVars, destVars, dbHandles, statements,
                   uploadVars, sqlStatements, schemas, inserts, tableNames,
                   existingTables>>

\* a comparison that accepts a destination with at least the rows of the
\* source
VerifyTableAtLeast ==
    /\ pc = "verifyTable"
    /\ i < Len(tableNames)
    /\ LET tableName == tableNames[i + 1]
           mysqlCount == srcRows[tableName]
           d1Count == d1[tableName]
       IN \/ \* the source count fails
             /\ console' = Append(console,
                    ConsoleLine("Could not verify", tableName, 0, 0))
             /\ UNCHANGED <<log, matches, mismatches>>
          \/ \* the destination count fails
             /\ Submit("count", tableName, <<>>, FALSE)
             /\ console' = Append(console,
                    ConsoleLine("Could not verify", tableName, 0, 0))
             /\ UNCHANGED <<matches, mismatches>>
          \/ \* both counts arrive
             /\ d1Count # Absent
             /\ Submit("count", tableName, <<>>, TRUE)
             /\ IF mysqlCount <= d1Count
                THEN /\ matches' = matches + 1
                     /\ console' = Append(console,
                            ConsoleLine("match", tableName, mysqlCount, 0))
                     /\ UNCHANGED mismatches
                ELSE /\ mismatches' = mismatches + 1
                     /\ console' = Append(console,
                            ConsoleLine("mismatch", tableName, mysqlCount,
                                        d1Count))
                     /\ UNCHANGED matches
    /\ i' = i + 1
    /\ UNCHANGED <<pureVars, importVars, inputVars, pc, runVars, fsVars, d1, resVars, statements,
                   uploadVars, sqlStatements, schemas, inserts, tableNames,
                   existingTables>>

\* lines 326-352: the rows of one expected table are counted at the source
\* and at the destination and compared; a failed count is a warning
VerifyTable ==
    /\ pc = "verifyTable"
    /\ i < Len(tableNames)
    /\ LET tableName == tableNames[i + 1]
           mysqlCount == srcRows[tableName]
           d1Count == d1[tableName]
       IN \/ \* the source count fails
             /\ console' = Append(console,
                    ConsoleLine("Could not verify", tableName, 0, 0))
             /\ UNCHANGED <<log, matches, mismatches>>
          \/ \* the destination count fails
             /\ Submit("count", tableName, <<>>, FALSE)
             /\ console' = Append(console,
                    ConsoleLine("Could not verify", tableName, 0, 0))
             /\ UNCHANGED <<matches, mismatches>>
          \/ \* both counts arrive
             /\ d1Count # Absent
             /\ Submit("count", tableName, <<>>, TRUE)
             /\ IF mysqlCount = d1Count
                THEN /\ matches' = matches + 1
                     /\ console' = Append(console,
                            ConsoleLine("match", tableName, mysqlCount, 0))
                     /\ UNCHANGED mismatches
                ELSE /\ mismatches' = mismatches + 1
                     /\ console' = Append(console,
                            ConsoleLine("mismatch", tableName, mysqlCount,
                                        d1Count))
                     /\ UNCHANGED matches
    /\ i' = i + 1
    /\ UNCHANGED <<pureVars, importVars, inputVars, pc, runVars, fsVars, d1, resVars, statements,
                   uploadVars, sqlStatements, schemas, inserts, tableNames,
                   existingTables>>

\* lines 354-370: the summary is printed and the source connection is closed
VerifyEnd ==
    /\ pc = "verifyTable"
    /\ i = Len(tableNames)
    /\ console' = IF mismatches = 0 /\ matches > 0
                   THEN Append(console,
                               ConsoleLine("Perfect migration", "", matches, 0))
                   ELSE IF mismatches > 0
                   THEN Append(console,
                               ConsoleLine("mismatches", "", mismatches, 0))
                   ELSE console
    /\ conn' = disconnect(conn)
    /\ i' = 0
    /\ pc' = Done
    /\ UNCHANGED <<pureVars, importVars, inputVars, runVars, fsVars, destVars, dbHandles, statements,
                   uploadVars, sqlStatements, migVars>>

\* the script is run once more after a run that ended normally (line 387)
Rerun ==
    /\ pc = Done
    /\ run = 1
    /\ run' = 2
    /\ d1AfterRun' = d1
    /\ fileAfterRun' = file
    /\ log' = <<>>
    /\ conn' = "none"
    /\ dbHandles' = 0
    /\ pc' = "main"
    /\ statements' = <<>> /\ i' = 0
    /\ results' = <<>> /\ successful' = 0 /\ failed' = 0 /\ errors' = <<>>
    /\ sqlStatements' = <<>>
    /\ schemas' = <<>> /\ inserts' = <<>> /\ tableNames' = <<>>
    /\ existingTables' = <<>> /\ matches' = 0 /\ mismatches' = 0
    /\ console' = <<>>
    /\ UNCHANGED <<pureVars, importVars, inputVars, fsVars, d1>>

\* the sources: up to MaxTables tables of up to MaxRows rows
Sources ==
    UNION {
        { [tables |-> SubSeq(SourceNames, 1, n),
           rows |-> [t \in AllTables |->
                        IF \E k \in 1..n : SourceNames[k] = t
                        THEN r[CHOOSE k \in 1..n : SourceNames[k] = t] ELSE 0]]
          : r \in [1..n -> 0..MaxRows] }
        : n \in 0..MaxTables }

\* the destinations the run finds: empty, with the reserved table, and with
\* tables of an earlier migration beside it
D1Inits ==
    { EmptyD1,
      [EmptyD1 EXCEPT ![ReservedTable] = 1],
      [EmptyD1 EXCEPT ![ReservedTable] = 1, ![SourceNames[1]] = 1,
                      ![SourceNames[3]] = 1] }

NoOptions == [batchSize |-> 0, stopOnError |-> "undefined"]

InitMigrate ==
    /\ script = "migrate"
    /\ pc = "main"
    /\ run = 1
    /\ mysqlUrl \in {"missing", "malformed", "ok"}
    /\ cfEnv \in BOOLEAN
    /\ \E src \in Sources :
        /\ srcTables = src.tables
        /\ srcRows = src.rows
        /\ fileExists \in BOOLEAN
        /\ file = IF fileExists THEN StreamOf(src.tables, src.rows) ELSE <<>>
    /\ d1 \in D1Inits
    /\ d1AfterRun = EmptyD1 /\ fileAfterRun = <<>>
    /\ log = <<>>
    /\ conn = "none" /\ dbHandles = 0
    /\ options = NoOptions
    /\ LocalsInit
    /\ NoCall

NextMigrate ==
    \/ MigrateMain \/ MigrateStart
    \/ GenStart \/ GenSchema \/ GenData \/ GenWrite
    \/ MigrateGenerated \/ MigrateParse
    \/ CleanPragma \/ CleanList \/ CleanDrop \/ CleanCheck
    \/ Configure \/ CreateSchema \/ InsertBatch \/ EnableForeignKeys
    \/ VerifyStart \/ VerifyConnect \/ VerifyTable \/ VerifyEnd
    \/ Rerun

SpecMigrate == InitMigrate /\ [][NextMigrate]_vars

---------------------------------------------------------------------------
(* Properties of the migrate script.                                       *)

\* the requests of the log that satisfy Test, in order
Requests(Test(_)) == SelectSeq(log, Test)

\* the positions of the cleaning: the enumeration is done or was not needed
AfterCleaning ==
    pc \in {"cleanCheck", "configure", "createSchema", "insertBatch", "enable",
            "verifyMigration", "verifyConnect", "verifyTable", Done}

\* the number of DROP requests for table t
Drops(t) == Len(Requests(LAMBDA r : r.op = "drop" /\ r.tbl = t))

\* C4: cleaning never submits a DROP of the reserved table _cf_KV, and once
\* its drop loop is over every other enumerated table was the subject of
\* exactly one DROP request (and no table of more than one), whether or not
\* earlier DROPs failed.
C4_CleaningSkipsReservedTable ==
    /\ Drops(ReservedTable) = 0
    /\ \A t \in AllTables : Drops(t) <= 1
    /\ AfterCleaning =>
         \A t \in AllTables \ {ReservedTable} :
            Drops(t) = IF \E n \in 1..Len(existingTables) : existingTables[n] = t
                       THEN 1 ELSE 0

\* C4 witness: the enumerated list held the reserved table and two others,
\* the first DROP failed and the second was still submitted
C4_Witness ==
    /\ pc = "configure"
    /\ Len(existingTables) = 3
    /\ existingTables[1] = ReservedTable
    /\ Len(Requests(LAMBDA r : r.op = "drop")) = 2
    /\ ~Requests(LAMBDA r : r.op = "drop")[1].ok

\* the CREATE TABLE statements of the file, in order
FileSchemas == SelectSeq(file, LAMBDA e : e.kind = "create")

\* C6: when an insert batch is submitted, every CREATE TABLE of the file was
\* submitted before it, once, in order, and each submission succeeded; after
\* a failed schema submission no insert batch is ever submitted.
C6_SchemasBeforeInserts ==
    /\ \A n \in 1..Len(log) :
         log[n].op = "insert" =>
            LET before == SelectSeq(SubSeq(log, 1, n - 1),
                                    LAMBDA r : r.op = "schema")
            IN /\ [k \in 1..Len(before) |-> before[k].stmts[1]] = FileSchemas
               /\ \A k \in 1..Len(before) : before[k].ok
    /\ (\E n \in 1..Len(log) : log[n].op = "schema" /\ ~log[n].ok) =>
         Requests(LAMBDA r : r.op = "insert") = <<>>

\* C6 witness: an insert batch was submitted after two CREATE TABLEs
C6_Witness ==
    /\ Len(FileSchemas) = 2
    /\ Len(Requests(LAMBDA r : r.op = "insert")) = 1
    /\ Requests(LAMBDA r : r.op = "insert")[1].ok
    /\ Len(Requests(LAMBDA r : r.op = "insert")[1].stmts) = 2

\* the requests that change the tables of the destination
IsLoad(r) == r.op \in {"drop", "schema", "insert"}

\* C7: the foreign keys are disabled before the first DROP, no drop, schema
\* or insert is submitted after the enable pragma, and every run that ends
\* after it disabled the foreign keys has submitted the enable pragma.
C7_ForeignKeysEnabledAtEnd ==
    /\ \A n \in 1..Len(log) :
         log[n].op = "drop" =>
            \E m \in 1..(n - 1) : log[m].op = "pragmaOff" /\ log[m].ok
    /\ \A n \in 1..Len(log) :
         log[n].op = "pragmaOn" => \A m \in (n + 1)..Len(log) : ~IsLoad(log[m])
    /\ (Ended /\ \E n \in 1..Len(log) : log[n].op = "pragmaOff" /\ log[n].ok)
         => \E n \in 1..Len(log) : log[n].op = "pragmaOn"

\* C5: after a second run that ended normally every table of the stream
\* holds as many rows as after the first run.
C5_RerunKeepsRowCounts ==
    (run = 2 /\ pc = Done) =>
        \A n \in 1..Len(tableNames) :
            d1[tableNames[n]] = d1AfterRun[tableNames[n]]

---------------------------------------------------------------------------
(* The full migration script (test-d1-connection.js:159-340): staged bulk  *)
(* import.                                                                 *)

\* the bytes of one entry of the stream, as a number
EntryCode(e) ==
    LET kind == CASE e.kind = "pragma" -> 1
                  [] e.kind = "comment" -> 2
                  [] e.kind = "create" -> 3
                  [] OTHER -> 4
        table == IF e.tbl = "" THEN 0
                 ELSE CHOOSE n \in 1..Len(TableOrder) : TableOrder[n] = e.tbl
    IN kind + 5 * table + 30 * e.row

\* a digest of a byte stream: it depends on every entry and on the order
RECURSIVE md5Hex(_)
md5Hex(buffer) ==
    IF buffer = <<>> THEN 7
    ELSE (md5Hex(SubSeq(buffer, 1, Len(buffer) - 1)) * 31
            + EntryCode(buffer[Len(buffer)])) % 65521

\* a checksum taken before the bytes were fed to the hash
checksumOfNothing(buffer) == md5Hex(<<>>)

\* line 298: crypto.createHash('md5').update(sqlBuffer).digest('hex')
checksumOf(buffer) == md5Hex(buffer)

\* a request of the import API as the log keeps it
ImportRequest(op, etag, bytes, status, ok) ==
    [op |-> op, tbl |-> "", stmts |-> bytes, ok |-> ok, etag |-> etag,
     status |-> status, bookmark |-> "", result |-> <<>>]

\* a field that a response does not have (or has with an empty value)
Undefined == "undefined"

\* the bookmarks the destination hands out
Bookmarks == {"bookmark-a", "bookmark-b"}

\* the result of a poll: the fields status and state, each possibly absent
PollResults ==
    [status : {Undefined, "completed", "failed", "running"},
     state : {Undefined, "completed", "failed", "running"}]

\* a status that is read from the state field only
pollStatusOfState(result) ==
    IF result.state # Undefined THEN result.state ELSE "pending"

\* line 232: result.status || result.state || 'pending'
pollStatus(result) ==
    IF result.status # Undefined THEN result.status
    ELSE IF result.state # Undefined THEN result.state
    ELSE "pending"

\* a poll as the log keeps it: the bookmark sent, the result received and
\* the status that line 232 reads from it
PollRequest(current_bookmark, success, result) ==
    [op |-> "poll", tbl |-> "", stmts |-> <<>>, ok |-> success, etag |-> 0,
     status |-> pollStatus(result), bookmark |-> current_bookmark,
     result |-> result]

\* the catch of main, lines 326-329: process.exit(1), so the finally that
\* would close the source connection (lines 330-335) does not run
FullCatch == pc' = Exit1

\* lines 263-272: the configuration is checked and MYSQL_URL is parsed,
\* before the try
FullMain ==
    /\ script = "full"
    /\ pc = "main"
    /\ pc' = IF mysqlUrl # "ok" \/ ~cfEnv THEN Rejected ELSE "connect"
    /\ UNCHANGED <<console, pureVars, importVars, inputVars, runVars, fsVars, destVars, resVars,
                   statements, i, uploadVars, sqlStatements, migVars>>

\* line 275: the source is connected
FullConnect ==
    /\ pc = "connect"
    /\ \E ok \in BOOLEAN :
        IF ok
        THEN /\ conn' = "open"
             /\ pc' = "generateSQLFile"
        ELSE GenThrow
    /\ UNCHANGED <<console, pureVars, importVars, inputVars, runVars, fsVars, destVars, dbHandles,
                   statements, i, uploadVars, sqlStatements, migVars>>

\* lines 276-286: the statement count is checked and the file is loaded into
\* the local staging database; new Database or db.exec can throw, and a
\* throw of db.exec leaves the handle open
FullLocalLoad ==
    /\ script = "full"
    /\ pc = "generated"
    /\ IF ret = 0
       THEN FullCatch /\ UNCHANGED dbHandles
       ELSE \E outcome \in {"ok", "openFailed", "execFailed"} :
            /\ dbHandles' = IF outcome = "execFailed"
                            THEN dbHandles + 1 ELSE dbHandles
            /\ IF outcome = "ok" THEN pc' = "counts" ELSE FullCatch
    /\ UNCHANGED <<console, pureVars, importVars, inputVars, runVars, fsVars, destVars, conn,
                   statements, i, uploadVars, sqlStatements, migVars>>

\* lines 288-292 and 191-205: getSQLiteTableCounts opens the staging database
\* again, lists its tables and closes it; a throw of the listing leaves the
\* handle open
FullCounts ==
    /\ pc = "counts"
    /\ \E outcome \in {"ok", "openFailed", "listFailed"} :
        /\ dbHandles' = IF outcome = "listFailed"
                        THEN dbHandles + 1 ELSE dbHandles
        /\ IF outcome = "ok" THEN pc' = "initImport" ELSE FullCatch
    /\ UNCHANGED <<console, pureVars, importVars, inputVars, runVars, fsVars, destVars, conn,
                   statements, i, uploadVars, sqlStatements, migVars>>

\* lines 295-303 and 209-215: the file is read and hashed, and the import is
\* initialised with the checksum; the result carries a bookmark
FullInit ==
    /\ pc = "initImport"
    /\ sqlBuffer' = file
    /\ md5' = checksumOf(file)
    /\ \E ok \in BOOLEAN :
        /\ log' = Append(log, ImportRequest("init", checksumOf(file), <<>>, "", ok))
        /\ IF ok
           THEN /\ pc' = "upload"
                /\ \E at_bookmark \in Bookmarks : bookmark' = at_bookmark
           ELSE /\ FullCatch
                /\ UNCHANGED bookmark
    /\ UNCHANGED <<console, pureVars, inputVars, runVars, fsVars, d1, resVars, statements, i,
                   uploadVars, sqlStatements, migVars>>

\* lines 305-314: the bytes of the file are uploaded
FullUpload ==
    /\ pc = "upload"
    /\ \E ok \in BOOLEAN :
        /\ log' = Append(log, ImportRequest("upload", 0, sqlBuffer, "", ok))
        /\ IF ok THEN pc' = "ingest" ELSE FullCatch
    /\ UNCHANGED <<console, pureVars, importVars, inputVars, runVars, fsVars, d1, resVars,
                   statements, i, uploadVars, sqlStatements, migVars>>

\* lines 316-318 and 217-223: the ingest is asked for, with the checksum;
\* the bookmark of its result, if it has one, replaces the one of init
FullIngest ==
    /\ pc = "ingest"
    /\ \E ok \in BOOLEAN :
        /\ log' = Append(log, ImportRequest("ingest", md5, <<>>, "", ok))
        /\ IF ok
           THEN /\ pc' = "poll"
                /\ \E at_bookmark \in Bookmarks \cup {Undefined} :
                     bookmark' = IF at_bookmark # Undefined
                                 THEN at_bookmark ELSE bookmark
           ELSE /\ FullCatch
                /\ UNCHANGED bookmark
    /\ UNCHANGED <<console, pureVars, sqlBuffer, md5, inputVars, runVars, fsVars, d1, resVars,
                   statements, i, uploadVars, sqlStatements, migVars>>

\* the statuses that end the loop of pollImport
Terminal == {"completed", "failed"}

\* the polls so far that were answered with a status that is not terminal
PendingPolls ==
    Len(SelectSeq(log, LAMBDA r : r.op = "poll" /\ r.ok
                                    /\ r.status \notin Terminal))

\* a pollImport that asks once and returns whatever status is reported
PollImportOnce ==
    /\ pc = "poll"
    /\ \E success \in BOOLEAN, result \in PollResults :
        LET status == pollStatus(result)
        IN /\ (success /\ status \notin Terminal) => PendingPolls < MaxPolls
           /\ (success /\ status = "completed") => D1CanExecAll(d1, sqlBuffer)
           /\ log' = Append(log, PollRequest(bookmark, success, result))
           /\ d1' = IF success /\ status = "completed"
                    THEN D1ExecAll(d1, sqlBuffer) ELSE d1
           /\ pc' = CASE ~success -> Exit1
                      [] status = "completed" -> "verifyD1RowCounts"
                      [] status = "failed" -> Exit1
                      [] OTHER -> "verifyD1RowCounts"
    /\ UNCHANGED <<console, pureVars, importVars, inputVars, runVars, fsVars, resVars, statements,
                   i, uploadVars, sqlStatements, migVars>>

\* pollImport, lines 225-242: one iteration. A response without success
\* throws (and the catch of main ends the process), completed leaves the
\* loop, failed ends the process, any other status polls again with the
\* same bookmark. The destination has executed the file when it reports
\* completed.
PollImport ==
    /\ pc = "poll"
    /\ \E success \in BOOLEAN, result \in PollResults :
        LET status == pollStatus(result)
        IN /\ (success /\ status \notin Terminal) => PendingPolls < MaxPolls
           /\ (success /\ status = "completed") => D1CanExecAll(d1, sqlBuffer)
           /\ log' = Append(log, PollRequest(bookmark, success, result))
           /\ d1' = IF success /\ status = "completed"
                    THEN D1ExecAll(d1, sqlBuffer) ELSE d1
           /\ pc' = CASE ~success -> Exit1
                      [] status = "completed" -> "verifyD1RowCounts"
                      [] status = "failed" -> Exit1
                      [] OTHER -> "poll"
    /\ UNCHANGED <<console, pureVars, importVars, inputVars, runVars, fsVars, resVars, statements,
                   i, uploadVars, sqlStatements, migVars>>

\* line 324: the argument mysqlCounts is declared nowhere, so evaluating the
\* call throws a ReferenceError before verifyD1RowCounts is entered, and the
\* catch of main ends the process
FullVerify ==
    /\ pc = "verifyD1RowCounts"
    /\ FullCatch
    /\ UNCHANGED <<console, pureVars, importVars, inputVars, runVars, fsVars, destVars, resVars,
                   statements, i, uploadVars, sqlStatements, migVars>>

InitFull ==
    /\ script = "full"
    /\ pc = "main"
    /\ run = 1
    /\ mysqlUrl \in {"missing", "malformed", "ok"}
    /\ cfEnv \in BOOLEAN
    /\ \E src \in Sources :
        /\ srcTables = src.tables
        /\ srcRows = src.rows
        /\ fileExists \in BOOLEAN
        /\ file = IF fileExists THEN StreamOf(src.tables, src.rows) ELSE <<>>
    /\ d1 \in D1Inits
    /\ d1AfterRun = EmptyD1 /\ fileAfterRun = <<>>
    /\ log = <<>>
    /\ conn = "none" /\ dbHandles = 0
    /\ options = NoOptions
    /\ LocalsInit
    /\ NoCall

NextFull ==
    \/ FullMain \/ FullConnect
    \/ GenStart \/ GenSchema \/ GenData \/ GenWrite
    \/ FullLocalLoad \/ FullCounts
    \/ FullInit \/ FullUpload \/ FullIngest \/ PollImport \/ FullVerify

SpecFull == InitFull /\ [][NextFull]_vars

---------------------------------------------------------------------------
(* Properties of the two transport strategies.                             *)

\* C3: a schema statement, an insert batch or an import file is submitted
\* only after the cleaning phase: the foreign keys were disabled and the
\* tables of the destination enumerated before it.
C3_CleaningBeforeTransport ==
    \A n \in 1..Len(log) :
        log[n].op \in {"schema", "insert", "upload"} =>
            /\ \E m \in 1..(n - 1) : log[m].op = "pragmaOff"
            /\ \E m \in 1..(n - 1) : log[m].op = "list"

\* the transport of the run completed successfully
TransportCompleted ==
    \/ \E n \in 1..Len(log) : log[n].op = "pragmaOn" /\ log[n].ok
    \/ \E n \in 1..Len(log) :
          log[n].op = "poll" /\ log[n].ok /\ log[n].status = "completed"

\* C8: when the run has ended, the source connection and the handles of the
\* local staging database are closed.
C8_ResourcesClosedAtEnd ==
    Ended => (conn # "open" /\ dbHandles = 0)

\* C9: once the transport has completed successfully, the run does not end
\* in failure.
C9_VerificationIsAdvisory ==
    TransportCompleted => pc \notin {Exit1, Rejected}

\* the requests of the import API, in order
ImportLog ==
    SelectSeq(log, LAMBDA r : r.op \in {"init", "upload", "ingest", "poll"})

\* C10: the import requests are init, upload, ingest and then polls, in this
\* order; each is submitted only after the request before it succeeded; the
\* checksum of init and of ingest is the checksum of the uploaded bytes,
\* which are the bytes of the file.
C10_ImportSequence ==
    /\ \A n \in 1..Len(ImportLog) :
         /\ ImportLog[n].op = CASE n = 1 -> "init"
                                [] n = 2 -> "upload"
                                [] n = 3 -> "ingest"
                                [] OTHER -> "poll"
         /\ n < Len(ImportLog) => ImportLog[n].ok
         /\ (n < Len(ImportLog) /\ ImportLog[n].op = "poll")
                => ImportLog[n].status \notin Terminal
    /\ Len(ImportLog) >= 1 => ImportLog[1].etag = md5Hex(file)
    /\ Len(ImportLog) >= 2 => ImportLog[2].stmts = file
    /\ Len(ImportLog) >= 3 =>
         /\ ImportLog[3].etag = ImportLog[1].etag
         /\ ImportLog[3].etag = md5Hex(ImportLog[2].stmts)

\* C10 witness: an import of a file with a row went through init, upload,
\* ingest, a poll that reported a pending status and a poll that reported
\* completed
C10_Witness ==
    /\ Len(ImportLog) = 5
    /\ ImportLog[4].status = "pending"
    /\ ImportLog[5].ok
    /\ ImportLog[5].status = "completed"
    /\ \E n \in 1..Len(file) : file[n].kind = "insert"

---------------------------------------------------------------------------
(* Properties of uploadSQLFile.                                            *)

\* the statements submitted so far, in the order of their submission
Submitted == [n \in 1..Len(log) |-> log[n].stmts[1]]

\* the statements whose submission failed, in the order of their submission
FailedSubmitted ==
    LET fs == SelectSeq(log, LAMBDA r : ~r.ok)
    IN [n \in 1..Len(fs) |-> fs[n].stmts[1]]

\* C1: in strict mode (stopOnError absent or true) no statement is submitted
\* after a submission failed: a failed submission is the last one of the log.
C1_StrictSubmitsNothingAfterFailure ==
    options.stopOnError \in {"undefined", "true"} =>
        \A n \in 1..Len(log) : ~log[n].ok => n = Len(log)

\* C2: in tolerant mode (stopOnError false) on an existing file the call never
\* throws, the submissions are the parsed statements in their order, each
\* once, and at the return all of them were submitted and the error list
\* names exactly the failed ones.
C2_TolerantSubmitsAll ==
    (options.stopOnError = "false" /\ fileExists) =>
        /\ pc # "thrown"
        /\ Len(log) <= Len(statements)
        /\ Submitted = SubSeq(statements, 1, Len(log))
        /\ pc = "returned" =>
              /\ Submitted = apiParseSQLFile(file)
              /\ [n \in 1..Len(errors) |-> errors[n].statement] = FailedSubmitted

\* C2 witness: a tolerant call returned after its first submission failed and
\* two more statements, of a later batch, were submitted
C2_Witness ==
    /\ pc = "returned"
    /\ options.stopOnError = "false"
    /\ options.batchSize = 1
    /\ Len(log) >= 3
    /\ ~log[1].ok
    /\ log[3].ok

---------------------------------------------------------------------------
(* Properties of pollImport.                                               *)

\* the status field of a result alone; an absent one is no terminal status
StatusField(result) == result.status

\* the status a result reports: its status field, or without one its state
\* field, or without both a pending status
ReportedStatus(result) ==
    CASE result.status # Undefined -> result.status
      [] result.state # Undefined -> result.state
      [] OTHER -> "pending"

\* what one iteration of pollImport does with the status that Read finds in
\* the result: the poll carries the bookmark pollImport was given; completed
\* leaves the loop, failed ends the process, anything else polls again; and
\* the loop is only left after completed.
PollOutcome(Read(_)) ==
    (pc = "poll" /\ log' # log) =>
        LET r == log'[Len(log')]
        IN /\ r.op = "poll"
           /\ r.bookmark = bookmark
           /\ bookmark' = bookmark
           /\ r.ok =>
                /\ Read(r.result) = "completed" => pc' = "verifyD1RowCounts"
                /\ Read(r.result) = "failed" => pc' = Exit1
                /\ Read(r.result) \notin Terminal => pc' = "poll"
           /\ pc' = "verifyD1RowCounts" => (r.ok /\ Read(r.result) = "completed")

\* C11 as stated: with the status being the status field of the result, a
\* completed status ends the loop successfully, a failed one ends the run in
\* failure, every other one, an absent one included, polls again with the
\* same bookmark, and the loop never ends successfully without completed.
C11_StatusFieldDecides == [][PollOutcome(StatusField)]_vars

\* C11, amended: the same, with the status being the status field of the
\* result or, when that is absent, its state field: only a result without
\* both counts as pending. Every poll of a run carries the same bookmark.
C11_ReportedStatusDecides ==
    /\ [](\A n, m \in 1..Len(log) :
            (log[n].op = "poll" /\ log[m].op = "poll")
                => log[n].bookmark = log[m].bookmark)
    /\ [][PollOutcome(ReportedStatus)]_vars

\* C11 witness: a poll whose result had neither field was followed by a poll
\* with the same bookmark, which was answered with completed and ended the
\* loop
C11_Witness ==
    /\ pc = "verifyD1RowCounts"
    /\ Len(ImportLog) = 5
    /\ ImportLog[4].result = [status |-> Undefined, state |-> Undefined]
    /\ ImportLog[5].result = [status |-> "completed", state |-> Undefined]
    /\ ImportLog[4].bookmark = ImportLog[5].bookmark

---------------------------------------------------------------------------
(* The functions of the pipeline, each called alone: arg is the argument   *)
(* of the call and ret what it returned.                                   *)

\* the largest number of statements given to createBatches
MaxBatchStmts == 5
\* the largest batch size given to createBatches
MaxBatchSize == 3

\* the variables of the scripts, which a function called alone leaves alone
scriptVars == <<inputVars, runVars, fsVars, destVars, resVars, statements, i,
                uploadVars, sqlStatements, migVars, importVars, console>>

\* the scripts at rest
ScriptsIdle ==
    /\ run = 1
    /\ mysqlUrl = "ok" /\ cfEnv = TRUE
    /\ srcTables = <<>> /\ srcRows = [t \in AllTables |-> 0]
    /\ options = NoOptions
    /\ fileExists = FALSE /\ file = <<>>
    /\ d1 = EmptyD1 /\ d1AfterRun = EmptyD1 /\ fileAfterRun = <<>>
    /\ log = <<>>
    /\ conn = "none" /\ dbHandles = 0
    /\ LocalsInit

\* function fn is called with argument a
Called(fn, a) ==
    /\ script = fn
    /\ pc = "called"
    /\ arg = a
    /\ ret = ""
    /\ ScriptsIdle

\* function fn returns value
Return(fn, value) ==
    /\ script = fn
    /\ pc = "called"
    /\ pc' = "returned"
    /\ ret' = value
    /\ UNCHANGED <<scriptVars, arg>>

---------------------------------------------------------------------------
(* Batching: createBatches and the batch loop of uploadSQLFile.            *)

\* cloudflare-d1-api.js:176-177: the batches of the loop of uploadSQLFile,
\* from index k on
RECURSIVE uploadBatches(_, _, _)
uploadBatches(stmts, k, opt) ==
    IF k < Len(stmts)
    THEN <<batchAt(stmts, k, opt)>>
            \o uploadBatches(stmts, k + batchSizeOf(opt), opt)
    ELSE <<>>

\* the lists of statements given to the batching: a CREATE TABLE and an
\* INSERT, in every order and with repetitions
BatchInputs ==
    UNION { [1..n -> {Create(SourceNames[1]), Insert(SourceNames[1], 1)}]
            : n \in 0..MaxBatchStmts }

InitBatch ==
    \E stmts \in BatchInputs, batchSize \in 1..MaxBatchSize,
       fn \in {"createBatches", "uploadBatches"} :
        Called(fn, [statements |-> stmts, batchSize |-> batchSize])

\* part_000:89-98
CallCreateBatches ==
    Return("createBatches", createBatches(arg.statements, arg.batchSize))

\* cloudflare-d1-api.js:169-179
CallUploadBatches ==
    Return("uploadBatches",
           uploadBatches(arg.statements, 0,
                         [batchSize |-> arg.batchSize,
                          stopOnError |-> "undefined"]))

NextBatch == CallCreateBatches \/ CallUploadBatches

SpecBatch == InitBatch /\ [][NextBatch]_vars

\* the statements of the batches, in order
RECURSIVE Flatten(_)
Flatten(batches) ==
    IF batches = <<>> THEN <<>> ELSE Head(batches) \o Flatten(Tail(batches))

\* C12: for N statements and a batch size B >= 1, createBatches and the
\* batch loop of uploadSQLFile produce ceil(N/B) batches, none of them
\* empty, all but the last of exactly B statements, whose statements in
\* order are the original list; no statement gives no batch.
C12_BatchesPartitionTheList ==
    pc = "returned" =>
        LET N == Len(arg.statements)
            B == arg.batchSize
        IN /\ Len(ret) = (N + B - 1) \div B
           /\ \A k \in 1..Len(ret) : Len(ret[k]) >= 1
           /\ \A k \in 1..(Len(ret) - 1) : Len(ret[k]) = B
           /\ Flatten(ret) = arg.statements
           /\ N = 0 => ret = <<>>

\* C12 witness: createBatches cut five statements into batches of two, the
\* last batch holding one statement
C12_Witness ==
    /\ script = "createBatches"
    /\ pc = "returned"
    /\ Len(arg.statements) = 5
    /\ arg.batchSize = 2
    /\ Len(ret) = 3
    /\ Len(ret[3]) = 1

---------------------------------------------------------------------------
(* Text: the string functions the parsers and the encoder use.             *)

\* the character of s at position n (from 1)
charAt(s, n) == SubSeq(s, n, n)

\* String.prototype.startsWith, endsWith, includes
startsWith(s, p) == Len(s) >= Len(p) /\ SubSeq(s, 1, Len(p)) = p
endsWith(s, p) == Len(s) >= Len(p) /\ SubSeq(s, Len(s) - Len(p) + 1, Len(s)) = p
includes(s, p) ==
    \E k \in 1..(Len(s) - Len(p) + 1) : SubSeq(s, k, k + Len(p) - 1) = p

\* String.prototype.indexOf, counted from 1: 0 when p does not occur in s
indexOf(s, p) ==
    LET hits == {k \in 1..(Len(s) - Len(p) + 1) : SubSeq(s, k, k + Len(p) - 1) = p}
    IN IF hits = {} THEN 0 ELSE CHOOSE k \in hits : \A j \in hits : k <= j

\* the characters String.prototype.trim removes
WhiteSpace == {" ", "\t", "\n", "\r", "\f"}

RECURSIVE trimStart(_)
trimStart(s) ==
    IF s # "" /\ charAt(s, 1) \in WhiteSpace
    THEN trimStart(SubSeq(s, 2, Len(s))) ELSE s

RECURSIVE trimEnd(_)
trimEnd(s) ==
    IF s # "" /\ charAt(s, Len(s)) \in WhiteSpace
    THEN trimEnd(SubSeq(s, 1, Len(s) - 1)) ELSE s

\* String.prototype.trim
trim(s) == trimEnd(trimStart(s))

\* String.prototype.split with a separator of one character
RECURSIVE split(_, _)
split(s, sep) ==
    IF indexOf(s, sep) = 0 THEN <<s>>
    ELSE <<SubSeq(s, 1, indexOf(s, sep) - 1)>>
            \o split(SubSeq(s, indexOf(s, sep) + 1, Len(s)), sep)

\* Array.prototype.join
RECURSIVE join(_, _)
join(list, sep) ==
    IF list = <<>> THEN ""
    ELSE IF Len(list) = 1 THEN list[1]
    ELSE list[1] \o sep \o join(Tail(list), sep)

---------------------------------------------------------------------------
(* parseSQLFile of the migrate script (part_000:28-69) on the text of a    *)
(* file: the line-based parser.                                            *)

\* the largest number of pieces of text the statements of a file are built of
MaxPieces == 4

\* a parser that takes every line it does not skip for a statement
RECURSIVE parseEveryLine(_, _, _, _)
parseEveryLine(lines, k, currentStatement, stmts) ==
    IF k > Len(lines) THEN stmts
    ELSE IF trim(lines[k]) = "" \/ startsWith(trim(lines[k]), "--")
            \/ startsWith(trim(lines[k]), "PRAGMA")
    THEN parseEveryLine(lines, k + 1, currentStatement, stmts)
    ELSE parseEveryLine(lines, k + 1, currentStatement,
                        Append(stmts, trim(lines[k])))

\* a parser that drops the statement pending at the end of the input
RECURSIVE parseLinesNoFlush(_, _, _, _)
parseLinesNoFlush(lines, k, currentStatement, stmts) ==
    IF k > Len(lines) THEN stmts
    ELSE LET line == lines[k]
             trimmedLine == trim(line)
             pending == currentStatement \o line \o "\n"
         IN IF trimmedLine = "" \/ startsWith(trimmedLine, "--")
                \/ startsWith(trimmedLine, "PRAGMA")
            THEN parseLinesNoFlush(lines, k + 1, currentStatement, stmts)
            ELSE IF endsWith(trimmedLine, ";")
            THEN parseLinesNoFlush(lines, k + 1, "",
                                   Append(stmts, trim(pending)))
            ELSE parseLinesNoFlush(lines, k + 1, pending, stmts)

\* lines 40-68: the loop over the lines, from line k on, and the flush of
\* the pending statement at the end of the input
RECURSIVE parseLines(_, _, _, _)
parseLines(lines, k, currentStatement, stmts) ==
    IF k > Len(lines)
    THEN IF trim(currentStatement) # ""
         THEN Append(stmts, trim(currentStatement)) ELSE stmts
    ELSE LET line == lines[k]
             trimmedLine == trim(line)
             pending == currentStatement \o line \o "\n"
         IN IF trimmedLine = "" \/ startsWith(trimmedLine, "--")
                \/ startsWith(trimmedLine, "PRAGMA")
            THEN parseLines(lines, k + 1, currentStatement, stmts)
            ELSE IF endsWith(trimmedLine, ";")
            THEN parseLines(lines, k + 1, "",
                            IF trim(pending) # ""
                            THEN Append(stmts, trim(pending)) ELSE stmts)
            ELSE parseLines(lines, k + 1, pending, stmts)

\* lines 33-68: parseSQLFile on the content of the file
parseSQLContent(content) == parseLines(split(content, "\n"), 1, "", <<>>)

\* the pieces of text the statements are built of
LinePieces == {"a", ";", " ", "\n", "--", "PRAGMA"}

\* the statements made of the pieces t, cut after the positions of cuts, each
\* closed by the terminator
RECURSIVE StatementsOf(_, _, _, _)
StatementsOf(t, k, pending, cuts) ==
    IF k > Len(t) THEN <<>>
    ELSE IF k \in cuts \/ k = Len(t)
    THEN <<pending \o t[k] \o ";">> \o StatementsOf(t, k + 1, "", cuts)
    ELSE StatementsOf(t, k + 1, pending \o t[k], cuts)

\* the parser is given the text of a list of statements that end with the
\* terminator, joined with newlines
InitLineParser ==
    \E n \in 0..MaxPieces :
        \E t \in [1..n -> LinePieces], cuts \in SUBSET (1..(n - 1)) :
            Called("parseSQLFile", StatementsOf(t, 1, "", cuts))

CallParseSQLFile == Return("parseSQLFile", parseSQLContent(join(arg, "\n")))

NextLineParser == CallParseSQLFile

SpecLineParser == InitLineParser /\ [][NextLineParser]_vars

\* C13 as stated: parsing the text of a list of statements that each end with
\* the terminator, joined with newlines, returns that list.
C13_ParserInvertsJoin == pc = "returned" => ret = arg

\* a statement the line-based parser can find again: it starts and ends with
\* text, none of its lines is blank or starts (after its indentation) with --
\* or PRAGMA, and only its last line ends with the terminator
LineParsable(stmt) ==
    LET ls == split(stmt, "\n")
    IN /\ trim(stmt) = stmt
       /\ endsWith(stmt, ";")
       /\ \A k \in 1..Len(ls) :
            /\ trim(ls[k]) # ""
            /\ ~startsWith(trim(ls[k]), "--")
            /\ ~startsWith(trim(ls[k]), "PRAGMA")
            /\ k < Len(ls) => ~endsWith(trim(ls[k]), ";")

\* C13, amended: parsing the text of a list of statements the line-based
\* parser can find again, joined with newlines, returns that list, same
\* order and same count.
C13_ParserInvertsJoinOfParsable ==
    (pc = "returned" /\ \A k \in 1..Len(arg) : LineParsable(arg[k]))
        => ret = arg

\* C13 witness: two statements, the first of two lines, were parsed back
C13_Witness ==
    /\ script = "parseSQLFile"
    /\ pc = "returned"
    /\ arg = <<"a\na;", "a;">>
    /\ ret = arg

---------------------------------------------------------------------------
(* The value encoder: MySQLToSQLiteMigrator.escapeForSQLite                *)
(* (mysql-to-sqlite.js:72-118).                                            *)

\* the largest number of characters of a text value
MaxValueLen == 3
\* the largest whole part of a number value
MaxNumber == 12

\* the decimal digit d
digit(d) == charAt("0123456789", d + 1)

\* Number.prototype.toString of a natural number
RECURSIVE natToString(_)
natToString(n) ==
    IF n < 10 THEN digit(n) ELSE natToString(n \div 10) \o digit(n % 10)

\* String.prototype.padStart(2, "0") of a number below 100
padStart2(n) == IF n < 10 THEN "0" \o natToString(n) ELSE natToString(n)

\* String.prototype.replace with a global pattern of fixed, non-empty text
RECURSIVE replaceAll(_, _, _)
replaceAll(s, pattern, replacement) ==
    IF Len(s) < Len(pattern) THEN s
    ELSE IF startsWith(s, pattern)
    THEN replacement
            \o replaceAll(SubSeq(s, Len(pattern) + 1, Len(s)), pattern, replacement)
    ELSE charAt(s, 1) \o replaceAll(SubSeq(s, 2, Len(s)), pattern, replacement)

\* the values of a row or of a column default, as the driver of the source
\* hands them over: null, undefined, numbers, booleans, strings, dates,
\* buffers, parsed JSON documents and big integers
Null == [type |-> "null"]
Absentee == [type |-> "undefined"]
Number(negative, whole, tenths) ==
    [type |-> "number", negative |-> negative, whole |-> whole, tenths |-> tenths]
Boolean(b) == [type |-> "boolean", flag |-> b]
Text(s) == [type |-> "string", value |-> s]
Buffer(s) == [type |-> "Buffer", value |-> s]
Document == [type |-> "object"]
BigInt(n) == [type |-> "bigint", big |-> n]
Date(weekday, year, month, day, hours, minutes, seconds) ==
    [type |-> "Date", weekday |-> weekday, year |-> year, month |-> month,
     day |-> day, hours |-> hours, minutes |-> minutes, seconds |-> seconds]

MonthNames == <<"Jan", "Feb", "Mar", "Apr", "May", "Jun", "Jul", "Aug", "Sep",
                "Oct", "Nov", "Dec">>

\* Number.prototype.toString of a number with at most one decimal place
numberToString(v) ==
    IF v.whole = 0 /\ v.tenths = 0 THEN "0"
    ELSE (IF v.negative THEN "-" ELSE "")
            \o natToString(v.whole)
            \o (IF v.tenths = 0 THEN "" ELSE "." \o digit(v.tenths))

\* Date.prototype.toString, in a process whose time zone is UTC
dateToString(v) ==
    v.weekday \o " " \o MonthNames[v.month] \o " " \o padStart2(v.day) \o " "
        \o natToString(v.year) \o " " \o padStart2(v.hours) \o ":"
        \o padStart2(v.minutes) \o ":" \o padStart2(v.seconds)
        \o " GMT+0000 (Coordinated Universal Time)"

\* line 87: String(value) of a value that is neither null, undefined, a
\* number nor a boolean
String(v) ==
    CASE v.type = "string" -> v.value
      [] v.type = "Buffer" -> v.value
      [] v.type = "object" -> "[object Object]"
      [] v.type = "bigint" -> natToString(v.big)
      [] v.type = "Date" -> dateToString(v)

\* lines 90-115: the replacements, in the order of the code; the backslash
\* rule runs after the rules that write a backslash. (The rules for NUL,
\* vertical tab and the other control characters, lines 106-115, find nothing
\* in the values of this model.)
escapeString(stringValue) ==
    LET quotes == replaceAll(stringValue, "'", "''")
        crlf == replaceAll(quotes, "\r\n", "\\n")
        lf == replaceAll(crlf, "\n", "\\n")
        cr == replaceAll(lf, "\r", "\\r")
        tab == replaceAll(cr, "\t", "\\t")
        backslash == replaceAll(tab, "\\", "\\\\")
    IN replaceAll(backslash, "\f", "\\f")

\* an encoder that treats every value as text
escapeAsText(value) ==
    "'" \o escapeString(IF value.type \in {"string", "Buffer", "object",
                                           "bigint", "Date"}
                        THEN String(value) ELSE value.type) \o "'"

\* lines 72-118
escapeForSQLite(value) ==
    IF value.type \in {"null", "undefined"} THEN "NULL"
    ELSE IF value.type = "number" THEN numberToString(value)
    ELSE IF value.type = "boolean" THEN (IF value.flag THEN "1" ELSE "0")
    ELSE "'" \o escapeString(String(value)) \o "'"

\* the characters of the text values
ValueChars == {"a", "'", "\\", "\n", "\r", "\t"}

\* the text values: every string of at most MaxValueLen of these characters
Strings ==
    { join(t, "") : t \in UNION { [1..n -> ValueChars] : n \in 0..MaxValueLen } }

\* the dates and times of the date values
Dates ==
    { Date(d[1], d[2], d[3], d[4], t[1], t[2], t[3]) :
        d \in {<<"Fri", 2024, 1, 5>>, <<"Tue", 2024, 12, 31>>},
        t \in {<<0, 0, 0>>, <<9, 5, 7>>, <<23, 59, 59>>} }

\* the values given to the encoder
Values ==
    {Null, Absentee, Boolean(TRUE), Boolean(FALSE), Document}
        \cup { Number(neg, whole, tenths) :
                neg \in BOOLEAN, whole \in {0, 7, MaxNumber}, tenths \in {0, 5} }
        \cup { Text(s) : s \in Strings }
        \cup { Buffer(s) : s \in {"", "a'"} }
        \cup { BigInt(n) : n \in {0, MaxNumber * MaxNumber} }
        \cup Dates

InitEncoder == \E value \in Values : Called("escapeForSQLite", value)

CallEscapeForSQLite == Return("escapeForSQLite", escapeForSQLite(arg))

NextEncoder == CallEscapeForSQLite

SpecEncoder == InitEncoder /\ [][NextEncoder]_vars

\* what the encoding of one character of a text value is to be: the quote
\* doubled, the backslash doubled, newline, carriage return and tab as a
\* backslash and a letter
EncodedChar(c) ==
    CASE c = "'" -> "''"
      [] c = "\\" -> "\\\\"
      [] c = "\n" -> "\\n"
      [] c = "\r" -> "\\r"
      [] c = "\t" -> "\\t"
      [] OTHER -> c

\* the encoding of a text, character by character, a carriage return with
\* its newline counting as a newline
RECURSIVE EncodedText(_)
EncodedText(s) ==
    IF s = "" THEN ""
    ELSE IF startsWith(s, "\r\n") THEN "\\n" \o EncodedText(SubSeq(s, 3, Len(s)))
    ELSE EncodedChar(charAt(s, 1)) \o EncodedText(SubSeq(s, 2, Len(s)))

\* C16: the encoding of a text value is the single-quoted literal in which
\* every quote is doubled, every backslash of the value is doubled, and
\* every newline is the two characters backslash and n (tab and carriage
\* return likewise): the backslash the substitution writes is not escaped
\* again.
C16_BackslashEscapedOnce ==
    (pc = "returned" /\ arg.type = "string") =>
        ret = "'" \o EncodedText(arg.value) \o "'"

\* the decimal digits
Digits == {digit(d) : d \in 0..9}

\* every quote of s is one of a pair
RECURSIVE QuotesDoubled(_)
QuotesDoubled(s) ==
    IF s = "" THEN TRUE
    ELSE IF charAt(s, 1) = "'"
    THEN Len(s) >= 2 /\ charAt(s, 2) = "'" /\ QuotesDoubled(SubSeq(s, 3, Len(s)))
    ELSE QuotesDoubled(SubSeq(s, 2, Len(s)))

\* s is a single-quoted literal: quotes around a text that holds quotes in
\* pairs only and neither a line break nor a tab
IsQuotedLiteral(s) ==
    /\ Len(s) >= 2
    /\ charAt(s, 1) = "'" /\ charAt(s, Len(s)) = "'"
    /\ QuotesDoubled(SubSeq(s, 2, Len(s) - 1))
    /\ \A k \in 1..Len(s) : charAt(s, k) \notin {"\n", "\r", "\t"}

\* the number written in decimal digits
RECURSIVE DecimalValue(_)
DecimalValue(s) ==
    IF s = "" THEN 0
    ELSE 10 * DecimalValue(SubSeq(s, 1, Len(s) - 1))
            + (CHOOSE d \in 0..9 : digit(d) = charAt(s, Len(s)))

---------------------------------------------------------------------------
(* CloudflareD1API.parseSQLFile (cloudflare-d1-api.js:85-156) on the text  *)
(* of a file: the character-level parser.                                  *)

\* the largest number of pieces of text of a literal
MaxLiteralPieces == 2
\* the largest number of statements of the parsed text
MaxLiterals == 2

\* the state of the parser: the statements found, the pending statement,
\* and whether the scan is inside a string (and of which quote) or a comment
ParserStart ==
    [statements |-> <<>>, currentStatement |-> "", inString |-> FALSE,
     stringChar |-> "", inComment |-> FALSE]

\* lines 117-145: the characters of a line, from character k on. (The third
\* quote of line 121, the backquote, does not occur in the texts of this
\* model.)
RECURSIVE scanLine(_, _, _)
scanLine(line, k, st) ==
    IF k > Len(line) THEN st
    ELSE LET char == charAt(line, k)
             kept == [st EXCEPT !.currentStatement = @ \o char]
         IN IF ~st.inString
            THEN IF char \in {"\"", "'"}
                 THEN scanLine(line, k + 1,
                               [kept EXCEPT !.inString = TRUE, !.stringChar = char])
                 ELSE IF char = ";"
                 THEN scanLine(line, k + 1,
                               IF trim(st.currentStatement) # ""
                               THEN [st EXCEPT
                                       !.statements = Append(@, trim(st.currentStatement)),
                                       !.currentStatement = ""]
                               ELSE st)
                 ELSE scanLine(line, k + 1, kept)
            ELSE IF char = st.stringChar /\ ~(k > 1 /\ charAt(line, k - 1) = "\\")
                 THEN scanLine(line, k + 1,
                               [kept EXCEPT !.inString = FALSE, !.stringChar = ""])
                 ELSE scanLine(line, k + 1, kept)

\* line 147: a space is added between the lines
endLine(st) == [st EXCEPT !.currentStatement = @ \o " "]

\* lines 94-148: the lines, from line k on
RECURSIVE scanLines(_, _, _)
scanLines(lines, k, st) ==
    IF k > Len(lines) THEN st
    ELSE LET line == trim(lines[k])
             opened == [st EXCEPT !.inComment = @ \/ includes(line, "/*")]
         IN IF line = "" \/ startsWith(line, "--") \/ startsWith(line, "#")
            THEN scanLines(lines, k + 1, st)
            ELSE IF ~opened.inComment
            THEN scanLines(lines, k + 1, endLine(scanLine(line, 1, opened)))
            ELSE IF includes(line, "*/")
            THEN scanLines(lines, k + 1,
                           endLine(scanLine(
                               SubSeq(line, indexOf(line, "*/") + 2, Len(line)), 1,
                               [opened EXCEPT !.inComment = FALSE])))
            ELSE scanLines(lines, k + 1, opened)

\* lines 85-156: parseSQLFile(sqlContent)
apiParseSQLContent(sqlContent) ==
    LET st == scanLines(split(sqlContent, "\n"), 1, ParserStart)
        all == IF trim(st.currentStatement) # ""
               THEN Append(st.statements, trim(st.currentStatement))
               ELSE st.statements
    IN SelectSeq(all, LAMBDA stmt : Len(stmt) > 0)

\* the pieces of text of the values of the literals
LiteralPieces == {"a", ";", "'", "\\", "/*", "*/", "--"}

\* the text values: at most MaxLiteralPieces pieces each
LiteralValues ==
    { join(t, "") :
        t \in UNION { [1..n -> LiteralPieces] : n \in 0..MaxLiteralPieces } }

\* a statement with one literal, as generateSQLFile writes its values
\* (mysql-to-sqlite.js:303-306), without and with its terminator
StatementBody(v) == "V(" \o escapeForSQLite(Text(v)) \o ")"
StatementWith(v) == StatementBody(v) \o ";"

\* the parser is given the text of a list of such statements, one per line
InitCharParser ==
    \E n \in 1..MaxLiterals :
        \E vs \in [1..n -> LiteralValues] : Called("api.parseSQLFile", vs)

CallApiParseSQLFile ==
    Return("api.parseSQLFile",
           apiParseSQLContent(
               join([k \in 1..Len(arg) |-> StatementWith(arg[k])], "\n")))

NextCharParser == CallApiParseSQLFile

SpecCharParser == InitCharParser /\ [][NextCharParser]_vars

\* the statements the parser is to find: those of the text, each without its
\* terminator
ParsedAsWritten ==
    ret = [k \in 1..Len(arg) |-> StatementBody(arg[k])]

\* C14: the terminators inside the literals never split a statement and the
\* terminator after each literal always does, whatever the literal holds,
\* doubled quotes and backslashes included: the parser finds exactly the
\* statements of the text.
C14_TerminatorsOutsideLiteralsSplit ==
    (pc = "returned"
        /\ \A k \in 1..Len(arg) :
            ~includes(arg[k], "/*") /\ ~includes(arg[k], "*/")
                /\ ~includes(arg[k], "--"))
        => ParsedAsWritten

\* C15: a comment marker inside a literal is not taken for a comment: the
\* text of the literal and of every statement after it is in the output.
C15_CommentMarkersInsideLiteralsKept ==
    (pc = "returned" /\ \A k \in 1..Len(arg) : ~includes(arg[k], "\\"))
        => ParsedAsWritten

---------------------------------------------------------------------------
(* The values of the INSERT statements: formatMySQLDateTime                *)
(* (mysql-to-sqlite.js:121-155) and the mapping of generateSQLFile         *)
(* (mysql-to-sqlite.js:273-304).                                           *)

UpperCase == "ABCDEFGHIJKLMNOPQRSTUVWXYZ"
LowerCase == "abcdefghijklmnopqrstuvwxyz"

\* String.prototype.toLowerCase
RECURSIVE toLowerCase(_)
toLowerCase(s) ==
    IF s = "" THEN ""
    ELSE (IF indexOf(UpperCase, charAt(s, 1)) > 0
          THEN charAt(LowerCase, indexOf(UpperCase, charAt(s, 1)))
          ELSE charAt(s, 1))
            \o toLowerCase(SubSeq(s, 2, Len(s)))

\* lines 124-131: toSQLiteTS
toSQLiteTS(date) ==
    natToString(date.year) \o "-" \o padStart2(date.month) \o "-"
        \o padStart2(date.day) \o " " \o padStart2(date.hours) \o ":"
        \o padStart2(date.minutes) \o ":" \o padStart2(date.seconds)

\* lines 121-155: a date is written in the canonical form; a string goes to
\* the encoder whether or not it has one of the three forms, and so does
\* everything else
formatMySQLDateTime(value) ==
    IF value.type \in {"null", "undefined"} THEN "NULL"
    ELSE IF value.type = "Date" THEN "'" \o toSQLiteTS(value) \o "'"
    ELSE escapeForSQLite(value)

\* a column the metadata does not know (line 282 finds nothing)
NoColumn == [Type |-> ""]

\* lines 273-304: the text of one value of a row, given the metadata of its
\* column: only the datetime and timestamp columns go through
\* formatMySQLDateTime, the date and time columns go to the encoder
insertValue(value, columnMeta) ==
    IF value.type \in {"null", "undefined"} THEN "NULL"
    ELSE IF columnMeta # NoColumn
            /\ (includes(toLowerCase(columnMeta.Type), "datetime")
                \/ includes(toLowerCase(columnMeta.Type), "timestamp"))
    THEN formatMySQLDateTime(value)
    ELSE escapeForSQLite(value)

\* the source types of the columns
ColumnTypes ==
    {"datetime", "DATETIME", "datetime(6)", "timestamp", "date", "time",
     "year", "int(11)", "varchar(255)"}

\* the values of the rows: dates, strings in the three temporal forms and
\* other strings, null and a number
RowValues ==
    Dates \cup {Null, Number(FALSE, 7, 0)}
        \cup { Text(s) : s \in {"2024-01-05 09:05:07", "2024-01-05",
                                "09:05:07", "a'"} }

InitInsertValue ==
    \E value \in RowValues, columnMeta \in {NoColumn} \cup [Type : ColumnTypes] :
        Called("insertValue", [value |-> value, columnMeta |-> columnMeta])

CallInsertValue ==
    Return("insertValue", insertValue(arg.value, arg.columnMeta))

NextInsertValue == CallInsertValue

SpecInsertValue == InitInsertValue /\ [][NextInsertValue]_vars

\* the column has one of the date/time source types
IsTemporalColumn(columnMeta) ==
    \E t \in {"datetime", "timestamp", "date", "time"} :
        startsWith(toLowerCase(columnMeta.Type), t)

\* two decimal digits
TwoDigits(n) == digit(n \div 10) \o digit(n % 10)

\* the canonical text of a date: YYYY-MM-DD HH:MM:SS
CanonicalText(date) ==
    natToString(date.year) \o "-" \o TwoDigits(date.month) \o "-"
        \o TwoDigits(date.day) \o " " \o TwoDigits(date.hours) \o ":"
        \o TwoDigits(date.minutes) \o ":" \o TwoDigits(date.seconds)

\* C18: in a column of a date/time source type (datetime, timestamp, date,
\* time) a date value is written as its quoted canonical text
\* YYYY-MM-DD HH:MM:SS, and a string that has one of the three temporal
\* forms is written quoted and unchanged.
C18_TemporalValuesCanonical ==
    (pc = "returned" /\ IsTemporalColumn(arg.columnMeta)) =>
        /\ arg.value.type = "Date" =>
              ret = "'" \o CanonicalText(arg.value) \o "'"
        /\ (arg.value.type = "string"
                /\ arg.value.value \in {"2024-01-05 09:05:07", "2024-01-05",
                                        "09:05:07"})
              => ret = "'" \o arg.value.value \o "'"

---------------------------------------------------------------------------
(* The type mapper: mapMySQLTypeToSQLite (mysql-to-sqlite.js:157-185).     *)

\* the largest number of words a source type string is made of
MaxTypeWords == 2

\* a mapper that looks for the text keywords before the integer keywords
mapTextFirst(mysqlType) ==
    LET type == toLowerCase(mysqlType.text)
    IN IF ~mysqlType.present \/ mysqlType.text = "" THEN "TEXT"
       ELSE IF includes(type, "char") \/ includes(type, "text")
                \/ includes(type, "enum") \/ includes(type, "set") THEN "TEXT"
       ELSE IF includes(type, "int") THEN "INTEGER"
       ELSE "TEXT"

\* lines 157-185; an absent type has present = FALSE
mapMySQLTypeToSQLite(mysqlType) ==
    LET type == toLowerCase(mysqlType.text)
    IN IF ~mysqlType.present \/ mysqlType.text = "" THEN "TEXT"
       ELSE IF includes(type, "tinyint(1)") THEN "INTEGER"
       ELSE IF includes(type, "int") THEN "INTEGER"
       ELSE IF includes(type, "bigint") THEN "INTEGER"
       ELSE IF includes(type, "smallint") THEN "INTEGER"
       ELSE IF includes(type, "mediumint") THEN "INTEGER"
       ELSE IF includes(type, "char") \/ includes(type, "text")
                \/ includes(type, "enum") \/ includes(type, "set") THEN "TEXT"
       ELSE IF includes(type, "json") THEN "TEXT"
       ELSE IF includes(type, "float") \/ includes(type, "double")
                \/ includes(type, "decimal") \/ includes(type, "numeric") THEN "REAL"
       ELSE IF includes(type, "bool") THEN "INTEGER"
       ELSE IF includes(type, "date") \/ includes(type, "time")
                \/ includes(type, "timestamp") \/ includes(type, "year") THEN "TEXT"
       ELSE IF includes(type, "blob") \/ includes(type, "binary") THEN "BLOB"
       ELSE "TEXT"

\* the words the source type strings are made of
TypeWords ==
    {"tinyint(1)", "int", "bigint", "smallint", "mediumint", "char", "text",
     "enum", "set", "json", "float", "double", "decimal", "numeric", "bool",
     "date", "time", "timestamp", "year", "blob", "binary", "INT", "VarChar",
     "Double", "geometry", "(10)", " unsigned"}

\* the source type strings: an absent one, and every string of at most
\* MaxTypeWords words (the empty one included)
TypeStrings ==
    { [present |-> FALSE, text |-> ""] }
        \cup { [present |-> TRUE, text |-> join(t, "")] :
                t \in UNION { [1..n -> TypeWords] : n \in 0..MaxTypeWords } }

InitTypeMapper ==
    \E mysqlType \in TypeStrings : Called("mapMySQLTypeToSQLite", mysqlType)

CallMapMySQLType ==
    Return("mapMySQLTypeToSQLite", mapMySQLTypeToSQLite(arg))

NextTypeMapper == CallMapMySQLType

SpecTypeMapper == InitTypeMapper /\ [][NextTypeMapper]_vars

\* the rules of the type mapper in their order: the keywords of each and the
\* target type; the ninth rule is the default
TypeRules ==
    << [keys |-> {"tinyint(1)"}, target |-> "INTEGER"],
       [keys |-> {"int", "bigint", "smallint", "mediumint"}, target |-> "INTEGER"],
       [keys |-> {"char", "text", "enum", "set"}, target |-> "TEXT"],
       [keys |-> {"json"}, target |-> "TEXT"],
       [keys |-> {"float", "double", "decimal", "numeric"}, target |-> "REAL"],
       [keys |-> {"bool"}, target |-> "INTEGER"],
       [keys |-> {"date", "time", "timestamp", "year"}, target |-> "TEXT"],
       [keys |-> {"blob", "binary"}, target |-> "BLOB"] >>

\* the rules that match a type string, whatever its case
MatchingRules(text) ==
    {n \in 1..Len(TypeRules) :
        \E key \in TypeRules[n].keys : includes(toLowerCase(text), key)}

\* the target of the first rule that matches
FirstMatch(text) ==
    IF MatchingRules(text) = {} THEN "TEXT"
    ELSE TypeRules[CHOOSE n \in MatchingRules(text) :
                        \A m \in MatchingRules(text) : n <= m].target

\* C19: for every source type string, an absent or empty one included, the
\* type mapper returns one of INTEGER, TEXT, REAL, BLOB, namely the target
\* of the first of the ordered, case-insensitive substring rules that
\* matches: INTEGER with an integer keyword, TEXT with a text keyword and no
\* integer keyword (whatever real or date keyword is also there), TEXT when
\* no rule matches.
C19_FirstMatchingRuleWins ==
    pc = "returned" =>
        /\ ret \in {"INTEGER", "TEXT", "REAL", "BLOB"}
        /\ ret = FirstMatch(arg.text)
        /\ 2 \in MatchingRules(arg.text) => ret = "INTEGER"
        /\ (3 \in MatchingRules(arg.text) /\ 1 \notin MatchingRules(arg.text)
                /\ 2 \notin MatchingRules(arg.text)) => ret = "TEXT"
        /\ MatchingRules(arg.text) = {} => ret = "TEXT"
        /\ ~arg.present => ret = "TEXT"

\* C19 witness: a type with a text keyword and a real keyword was mapped to
\* TEXT, in upper case too
C19_Witness ==
    /\ script = "mapMySQLTypeToSQLite"
    /\ pc = "returned"
    /\ arg.text = "VarCharDouble"
    /\ ret = "TEXT"

---------------------------------------------------------------------------
(* generateSQLFile alone (mysql-to-sqlite.js:192-332), on a connected       *)
(* source.                                                                 *)

\* the largest number of tables of the source of the generator
MaxGenTables == 3
\* the largest number of rows the generator fetches from a table
MaxFetched == 2

\* the sources: up to MaxGenTables tables of up to MaxFetched rows
GenSources ==
    UNION {
        { [tables |-> SubSeq(SourceNames, 1, n),
           rows |-> [t \in AllTables |->
                        IF \E k \in 1..n : SourceNames[k] = t
                        THEN r[CHOOSE k \in 1..n : SourceNames[k] = t] ELSE 0]]
          : r \in [1..n -> 0..MaxFetched] }
        : n \in 0..MaxGenTables }

InitGenerate ==
    /\ script = "generate"
    /\ pc = "generateSQLFile"
    /\ run = 1
    /\ mysqlUrl = "ok" /\ cfEnv = TRUE
    /\ \E src \in GenSources :
        /\ srcTables = src.tables
        /\ srcRows = src.rows
        /\ fileExists \in BOOLEAN
        /\ file = IF fileExists THEN StreamOf(src.tables, src.rows) ELSE <<>>
    /\ d1 = EmptyD1 /\ d1AfterRun = EmptyD1 /\ fileAfterRun = <<>>
    /\ log = <<>>
    /\ conn = "open" /\ dbHandles = 0
    /\ options = NoOptions
    /\ LocalsInit
    /\ NoCall

NextGenerate == GenStart \/ GenSchema \/ GenData \/ GenWrite

SpecGenerate == InitGenerate /\ [][NextGenerate]_vars

\* the place of a table in the catalog
CatalogIndex(t) == CHOOSE k \in 1..Len(srcTables) : srcTables[k] = t

\* C20: no INSERT is ever pushed before a CREATE TABLE, and the written
\* stream is: the pragma that disables the foreign keys, the provenance
\* comments, one CREATE TABLE per source table in catalog order, the INSERTs
\* grouped by table in the same order with one INSERT per fetched row in
\* fetch order, and the summary comment.
C20_StreamOrder ==
    /\ \A n, m \in 1..Len(sqlStatements) :
         (n < m /\ sqlStatements[n].kind = "insert")
            => sqlStatements[m].kind \in {"insert", "comment"}
    /\ pc = "generated" =>
         LET T == Len(srcTables)
             data == SubSeq(file, 4 + T, Len(file) - 1)
         IN /\ file = sqlStatements
            /\ Len(file) >= 4 + T
            /\ file[1] = Pragma
            /\ file[2] = Comment /\ file[3] = Generated(run)
            /\ \A k \in 1..T : file[3 + k] = Create(srcTables[k])
            /\ file[Len(file)] = Comment
            /\ \A n \in 1..Len(data) : data[n].kind = "insert"
            /\ \A n, m \in 1..Len(data) :
                 n < m =>
                    \/ CatalogIndex(data[n].tbl) < CatalogIndex(data[m].tbl)
                    \/ /\ data[n].tbl = data[m].tbl
                       /\ data[n].row < data[m].row
            /\ \A k \in 1..T :
                 LET rows == SelectSeq(data, LAMBDA e : e.tbl = srcTables[k])
                 IN /\ Len(rows) \in {0, srcRows[srcTables[k]]}
                    /\ \A n \in 1..Len(rows) : rows[n].row = n

\* C20 witness: a stream of two tables was written, with the two rows of the
\* first table before the row of the second
C20_Witness ==
    /\ script = "generate"
    /\ pc = "generated"
    /\ Len(srcTables) = 2
    /\ Len(file) = 9
    /\ file[6] = Insert(srcTables[1], 1)
    /\ file[7] = Insert(srcTables[1], 2)
    /\ file[8] = Insert(srcTables[2], 1)

---------------------------------------------------------------------------
(* Properties of generateSQLFile: the failures of the source queries.      *)

\* the INSERT statements of one table in the written file
InsertsInFile(t) ==
    SelectSeq(file, LAMBDA e : e.kind = "insert" /\ e.tbl = t)

\* C21: once the data phase has begun generateSQLFile does not throw, and
\* when it has returned every table has been through the data phase once: a
\* table without rows has no INSERT, a table whose data step failed has no
\* INSERT at all, and every other table has one INSERT per row.
C21_DataPhaseSkipsTables ==
    /\ pc = Exit1 => console = <<>>
    /\ pc = "generated" =>
         /\ Len(console) = Len(srcTables)
         /\ \A k \in 1..Len(srcTables) :
              LET t == srcTables[k]
                  line == console[k]
              IN /\ line.tbl = t
                 /\ line.says \in {"No data found", "Generated",
                                   "Error generating data"}
                 /\ line.says = "No data found" => srcRows[t] = 0
                 /\ line.says = "Generated" => srcRows[t] > 0
                 /\ srcRows[t] = 0 => InsertsInFile(t) = <<>>
                 /\ line.says = "Error generating data"
                        => InsertsInFile(t) = <<>>
                 /\ line.says # "Error generating data"
                        => InsertsInFile(t) = InsertsOfTable(t, srcRows[t])

\* C21 witness: the file was written although the rows of the first table
\* could not be read, the second table has no row and the third has its
\* INSERTs
C21_Witness ==
    /\ script = "generate"
    /\ pc = "generated"
    /\ Len(srcTables) = 3
    /\ srcRows[srcTables[1]] = 2
    /\ console[1].says = "Error generating data"
    /\ console[2].says = "No data found"
    /\ console[3].says = "Generated"
    /\ InsertsInFile(srcTables[1]) = <<>>
    /\ Len(InsertsInFile(srcTables[3])) = 2


\* C22: a failed query about one table never ends the generation: once the
\* table names are read (the pragma and the provenance comments are pushed)
\* generateSQLFile does not throw.
C22_TableFailuresRecovered ==
    pc = Exit1 => sqlStatements = <<>>


\* the number of entries generateSQLFile writes for a source of T tables
\* when rows rows were fetched: the pragma, the two provenance comments, the
\* CREATE TABLE statements, the INSERT statements and the summary comment
EntriesWritten(T, rows) == 1 + 2 + T + rows + 1

\* C23: the count generateSQLFile returns is the number of entries of the
\* written stream: the pragma, the comments, one CREATE TABLE per table and
\* one INSERT per row of every table whose rows were fetched.
C23_ReturnsEntryCount ==
    pc = "generated" =>
        /\ ret = Len(file)
        /\ ret = EntriesWritten(Len(srcTables), totalRows(console))
        /\ \A k \in 1..Len(console) :
             console[k].says = "Generated"
                => console[k].a = srcRows[console[k].tbl]

\* C23 witness: three tables, the rows of one of them not fetched, and nine
\* entries written
C23_Witness ==
    /\ script = "generate"
    /\ pc = "generated"
    /\ Len(srcTables) = 3
    /\ srcRows[srcTables[1]] = 2
    /\ srcRows[srcTables[2]] = 1
    /\ srcRows[srcTables[3]] = 1
    /\ console[2].says = "Error generating data"
    /\ ret = 10

---------------------------------------------------------------------------
(* Properties of the migrate script: generation, parsing and transport     *)
(* together.                                                               *)

\* the file was generated in this run and every data step succeeded
GeneratedFromSource ==
    /\ script = "migrate"
    /\ sqlStatements # <<>>
    /\ file = sqlStatements
    /\ \A k \in 1..Len(srcTables) :
         /\ k <= Len(console)
         /\ console[k].says \in {"Generated", "No data found"}

\* the number of rows of the source
RECURSIVE SourceRows(_)
SourceRows(tables) ==
    IF tables = <<>> THEN 0
    ELSE srcRows[Head(tables)] + SourceRows(Tail(tables))

\* the positions after the file was parsed
AfterParse ==
    pc \in {"cleanD1Database", "cleanList", "cleanDrop", "cleanCheck",
            "configure", "createSchema", "insertBatch", "enable",
            "verifyMigration", "verifyConnect", "verifyTable", Done}

\* the positions after the last insert batch succeeded
AfterTransport ==
    pc \in {"enable", "verifyMigration", "verifyConnect", "verifyTable", Done}

\* the statements of the requests, one after the other
RECURSIVE StatementsOfRequests(_)
StatementsOfRequests(rs) ==
    IF rs = <<>> THEN <<>>
    ELSE Head(rs).stmts \o StatementsOfRequests(Tail(rs))

\* the first part of C24: the parsed file has one schema statement per table
\* and one data statement per row, and a successful transport submitted
\* every one of them once
C24_CountsAndSubmissions ==
    /\ (GeneratedFromSource /\ AfterParse) =>
         /\ Len(schemas) = Len(srcTables)
         /\ Len(inserts) = SourceRows(srcTables)
    /\ (GeneratedFromSource /\ AfterTransport) =>
         /\ StatementsOfRequests(Requests(LAMBDA r : r.op = "schema")) = schemas
         /\ StatementsOfRequests(Requests(LAMBDA r : r.op = "insert")) = inserts
         /\ \A n \in 1..Len(log) : IsLoad(log[n]) /\ log[n].op # "drop" => log[n].ok

\* C24: for a source whose fetches all succeed, the parsed file has one
\* schema statement per table and one data statement per row, a successful
\* transport submitted every one of them once, and every table of the
\* source then holds as many rows at the destination as at the source.
C24_EndToEnd ==
    /\ C24_CountsAndSubmissions
    /\ (GeneratedFromSource /\ AfterTransport) =>
         \A k \in 1..Len(srcTables) : d1[srcTables[k]] = srcRows[srcTables[k]]


\* C25: a run of the migrate script whose source URL is missing or malformed,
\* or whose Cloudflare variables are not all set, makes no request to the
\* destination, opens no source connection and does not end normally.
C25_ConfigurationRequiredAtStartup ==
    (script = "migrate" /\ (mysqlUrl # "ok" \/ ~cfEnv)) =>
        /\ log = <<>>
        /\ conn = "none"
        /\ pc # Done

---------------------------------------------------------------------------
(* Properties of verifyMigration.                                          *)

\* the lines verifyMigration printed about the tables
VerifyLines ==
    SelectSeq(console,
              LAMBDA l : l.says \in {"match", "mismatch", "Could not verify"})

\* whether both counts of table t arrived
Counted(t) ==
    \E n \in 1..Len(log) : log[n].op = "count" /\ log[n].tbl = t /\ log[n].ok

\* C26: the expected tables are the names of the schema and insert
\* statements without duplicates; verification prints one line for each of
\* them, in order; when both counts of a table arrived the line is a match
\* if the two counts are equal (zero included) and otherwise a mismatch that
\* shows both counts; the two counters count these lines.
C26_MatchIffCountsEqual ==
    /\ \A n, m \in 1..Len(tableNames) : tableNames[n] = tableNames[m] => n = m
    /\ pc \in {"verifyTable", Done} =>
         /\ \A e \in {schemas[n] : n \in 1..Len(schemas)}
                    \cup {inserts[n] : n \in 1..Len(inserts)} :
                \E n \in 1..Len(tableNames) : tableNames[n] = extractTableName(e)
         /\ [n \in 1..Len(VerifyLines) |-> VerifyLines[n].tbl]
              = SubSeq(tableNames, 1,
                       IF pc = "verifyTable" THEN i ELSE Len(VerifyLines))
         /\ (pc = Done /\ VerifyLines # <<>>)
                => Len(VerifyLines) = Len(tableNames)
         /\ \A n \in 1..Len(VerifyLines) :
              LET line == VerifyLines[n]
                  t == line.tbl
              IN /\ Counted(t) <=> line.says \in {"match", "mismatch"}
                 /\ line.says = "match"
                        <=> (Counted(t) /\ srcRows[t] = d1[t])
                 /\ line.says = "match" => line.a = srcRows[t]
                 /\ line.says = "mismatch"
                        => line.a = srcRows[t] /\ line.b = d1[t]
         /\ matches = Len(SelectSeq(VerifyLines, LAMBDA l : l.says = "match"))
         /\ mismatches
              = Len(SelectSeq(VerifyLines, LAMBDA l : l.says = "mismatch"))

\* C26 witness: the verification ended with a mismatch that shows a source
\* without rows and a destination with one, and a match of two tables
\* without rows
C26_Witness ==
    /\ pc = Done
    /\ Len(VerifyLines) = 2
    /\ VerifyLines[1] = ConsoleLine("mismatch", SourceNames[1], 0, 1)
    /\ VerifyLines[2] = ConsoleLine("match", SourceNames[2], 0, 0)

---------------------------------------------------------------------------
(* The schema phase of generateSQLFile on text: the column clauses, the     *)
(* FOREIGN KEY clauses and the CREATE TABLE statement                      *)
(* (mysql-to-sqlite.js:42-69, 217-250).                                    *)

\* the largest number of columns of a table
MaxColumns == 2
\* the largest number of foreign-key rows of a table
MaxForeignKeys == 2

\* a || b on a value and a text: null, undefined and the empty string are
\* falsy
orElse(v, d) ==
    IF v.type \in {"null", "undefined"} \/ (v.type = "string" /\ v.value = "")
    THEN d ELSE String(v)

\* getForeignKeys, lines 62-68: a descriptor per row of the query
getForeignKeys(rows) ==
    [n \in 1..Len(rows) |->
        [column |-> rows[n].COLUMN_NAME,
         refTable |-> rows[n].REFERENCED_TABLE_NAME,
         refColumn |-> rows[n].REFERENCED_COLUMN_NAME,
         onUpdate |-> orElse(rows[n].UPDATE_RULE, "NO ACTION"),
         onDelete |-> orElse(rows[n].DELETE_RULE, "NO ACTION")]]

\* String.prototype.replace(/\s+/g, ' ')
RECURSIVE collapseWhiteSpace(_)
collapseWhiteSpace(s) ==
    IF s = "" THEN ""
    ELSE IF charAt(s, 1) \in WhiteSpace
    THEN " " \o collapseWhiteSpace(trimStart(s))
    ELSE charAt(s, 1) \o collapseWhiteSpace(SubSeq(s, 2, Len(s)))

\* lines 223-237: the DEFAULT clause of a column
defaultValue(col, type) ==
    IF col.Default.type \in {"null", "undefined"} THEN ""
    ELSE IF includes(String(col.Default), "CURRENT_TIMESTAMP")
    THEN (IF includes(toLowerCase(col.Field), "update")
          THEN "" ELSE "DEFAULT (datetime('now'))")
    ELSE IF type = "TEXT" THEN "DEFAULT " \o escapeForSQLite(col.Default)
    ELSE "DEFAULT " \o String(col.Default)

\* lines 217-240: the clause of a column
columnDefinition(col) ==
    LET type == mapMySQLTypeToSQLite([present |-> TRUE, text |-> col.Type])
        nullable == IF col.Null = "YES" THEN "" ELSE "NOT NULL"
        primaryKey == IF col.Key = "PRI" THEN "PRIMARY KEY" ELSE ""
        autoIncrement == IF col.Extra # "" /\ includes(col.Extra, "auto_increment")
                         THEN "AUTOINCREMENT" ELSE ""
    IN collapseWhiteSpace(trim(
            "\"" \o col.Field \o "\" " \o type \o " " \o nullable \o " "
                \o primaryKey \o " " \o autoIncrement \o " "
                \o defaultValue(col, type)))

\* lines 243-247: the clause of a foreign key
foreignKeyClause(fk) ==
    "FOREIGN KEY(\"" \o fk.column \o "\") REFERENCES \"" \o fk.refTable
        \o "\"(\"" \o fk.refColumn \o "\") ON DELETE " \o fk.onDelete
        \o " ON UPDATE " \o fk.onUpdate

\* a statement with the FOREIGN KEY clauses before the column clauses
createTableKeysFirst(tableName, columns, foreignKeys) ==
    "CREATE TABLE IF NOT EXISTS \"" \o tableName \o "\" (\n  "
        \o join([n \in 1..Len(foreignKeys) |-> foreignKeyClause(foreignKeys[n])]
                    \o [n \in 1..Len(columns) |-> columnDefinition(columns[n])],
                ",\n  ")
        \o "\n);"

\* lines 217-250: the CREATE TABLE statement of a table
createTableSQL(tableName, columns, foreignKeys) ==
    "CREATE TABLE IF NOT EXISTS \"" \o tableName \o "\" (\n  "
        \o join([n \in 1..Len(columns) |-> columnDefinition(columns[n])]
                    \o [n \in 1..Len(foreignKeys) |-> foreignKeyClause(foreignKeys[n])],
                ",\n  ")
        \o "\n);"

\* the default values of the columns, as DESCRIBE returns them
Defaults ==
    {Null, Text("CURRENT_TIMESTAMP"), Text("0"), Text("it's"), Text("a  b")}

\* the rows of DESCRIBE
Columns ==
    [Field : {"id", "Updated_at"},
     Type : {"int(11)", "varchar(9)"},
     Null : {"YES", "NO"},
     Key : {"PRI", ""},
     Extra : {"", "auto_increment"},
     Default : Defaults]

\* the columns of the tables
TableColumns ==
    { [Field |-> "id", Type |-> "int(11)", Null |-> "NO", Key |-> "PRI",
       Extra |-> "auto_increment", Default |-> Null],
      [Field |-> "name", Type |-> "varchar(9)", Null |-> "YES", Key |-> "",
       Extra |-> "", Default |-> Text("it's")],
      [Field |-> "owner", Type |-> "int(11)", Null |-> "YES", Key |-> "",
       Extra |-> "", Default |-> Text("0")],
      [Field |-> "updated_at", Type |-> "datetime", Null |-> "NO", Key |-> "",
       Extra |-> "", Default |-> Text("CURRENT_TIMESTAMP")] }

\* the rows of the foreign-key query
ForeignKeyRows ==
    [COLUMN_NAME : {"owner"},
     REFERENCED_TABLE_NAME : {"users"},
     REFERENCED_COLUMN_NAME : {"id"},
     UPDATE_RULE : {Null, Text("CASCADE")},
     DELETE_RULE : {Text(""), Text("SET NULL")}]

InitCreateTable ==
    \E columns \in UNION { [1..n -> TableColumns] : n \in 1..MaxColumns },
       rows \in UNION { [1..n -> ForeignKeyRows] : n \in 0..MaxForeignKeys } :
        Called("createTableSQL", [columns |-> columns, rows |-> rows])

CallCreateTable ==
    Return("createTableSQL",
           createTableSQL("t", arg.columns, getForeignKeys(arg.rows)))

NextCreateTable == CallCreateTable

SpecCreateTable == InitCreateTable /\ [][NextCreateTable]_vars

\* the rule of a row of the foreign-key query as the clause shows it
RuleShown(v) ==
    IF v \in {Null, Absentee, Text("")} THEN "NO ACTION" ELSE v.value

\* C27: the lines of a CREATE TABLE statement between its first and its last
\* are one clause per column, in the order of the columns, and after them
\* one FOREIGN KEY clause per row of the foreign-key query, in which an
\* absent update or delete rule reads NO ACTION.
C27_ColumnsThenForeignKeys ==
    (script = "createTableSQL" /\ pc = "returned") =>
        LET lines == split(ret, "\n")
            C == Len(arg.columns)
            F == Len(arg.rows)
            Last(k) == IF k = C + F THEN "" ELSE ","
        IN /\ Len(lines) = C + F + 2
           /\ lines[1] = "CREATE TABLE IF NOT EXISTS \"t\" ("
           /\ lines[C + F + 2] = ");"
           /\ \A k \in 1..C :
                /\ startsWith(lines[k + 1],
                              "  \"" \o arg.columns[k].Field \o "\" ")
                /\ endsWith(lines[k + 1], Last(k))
                /\ ~includes(lines[k + 1], "FOREIGN KEY")
           /\ \A k \in 1..F :
                lines[C + k + 1] =
                    "  FOREIGN KEY(\"" \o arg.rows[k].COLUMN_NAME
                        \o "\") REFERENCES \"" \o arg.rows[k].REFERENCED_TABLE_NAME
                        \o "\"(\"" \o arg.rows[k].REFERENCED_COLUMN_NAME
                        \o "\") ON DELETE " \o RuleShown(arg.rows[k].DELETE_RULE)
                        \o " ON UPDATE " \o RuleShown(arg.rows[k].UPDATE_RULE)
                        \o Last(C + k)

\* C27 witness: a statement of two columns and two foreign keys, the first
\* with both rules absent
C27_Witness ==
    /\ script = "createTableSQL"
    /\ pc = "returned"
    /\ ret = "CREATE TABLE IF NOT EXISTS \"t\" (\n  "
                \o "\"id\" INTEGER NOT NULL PRIMARY KEY AUTOINCREMENT,\n  "
                \o "\"owner\" INTEGER DEFAULT 0,\n  "
                \o "FOREIGN KEY(\"owner\") REFERENCES \"users\"(\"id\") ON DELETE NO ACTION ON UPDATE NO ACTION,\n  "
                \o "FOREIGN KEY(\"owner\") REFERENCES \"users\"(\"id\") ON DELETE SET NULL ON UPDATE CASCADE"
                \o "\n);"


InitColumnDefinition == \E col \in Columns : Called("columnDefinition", col)

CallColumnDefinition == Return("columnDefinition", columnDefinition(arg))

NextColumnDefinition == CallColumnDefinition

SpecColumnDefinition == InitColumnDefinition /\ [][NextColumnDefinition]_vars

\* the DEFAULT clause the policy gives a column, the empty text for none
PolicyDefault(col) ==
    LET type == mapMySQLTypeToSQLite([present |-> TRUE, text |-> col.Type])
    IN IF col.Default = Null THEN ""
       ELSE IF col.Default = Text("CURRENT_TIMESTAMP")
       THEN (IF includes(toLowerCase(col.Field), "update")
             THEN "" ELSE "DEFAULT (datetime('now'))")
       ELSE IF type = "TEXT" THEN "DEFAULT " \o escapeForSQLite(col.Default)
       ELSE "DEFAULT " \o col.Default.value

\* C28: the clause of a column ends with the DEFAULT clause of the policy: the
\* now expression for a current-timestamp default, unless the name of the
\* column contains update; the encoded literal on a TEXT column; the literal
\* as it is on any other column; and no DEFAULT clause where the policy
\* gives none.
C28_DefaultValuePolicy ==
    (script = "columnDefinition" /\ pc = "returned") =>
        IF PolicyDefault(arg) = ""
        THEN ~includes(ret, "DEFAULT")
        ELSE endsWith(ret, " " \o PolicyDefault(arg))

\* the policy holds for the defaults without two spaces in a row
C28_PolicyOfSingleSpacedDefaults ==
    (script = "columnDefinition" /\ pc = "returned"
        /\ arg.Default # Text("a  b")) =>
        IF PolicyDefault(arg) = ""
        THEN ~includes(ret, "DEFAULT")
        ELSE endsWith(ret, " " \o PolicyDefault(arg))

---------------------------------------------------------------------------
(* generateSQLFile called twice on the same source.                        *)

\* generateSQLFile is called again after it returned: the first file is kept
\* for the comparison
GenAgain ==
    /\ script = "generate"
    /\ pc = "generated"
    /\ run = 1
    /\ run' = 2
    /\ fileAfterRun' = file
    /\ pc' = "generateSQLFile"
    /\ UNCHANGED <<console, pureVars, importVars, inputVars, d1AfterRun, fsVars, destVars,
                   resVars, statements, i, uploadVars, sqlStatements, migVars>>

NextGenerateTwice == GenStart \/ GenSchema \/ GenData \/ GenWrite \/ GenAgain

SpecGenerateTwice == InitGenerate /\ [][NextGenerateTwice]_vars

\* the two streams are the same entry for entry, but for the comment with
\* the time of the generation
SameButTimestamp(a, b) ==
    /\ Len(a) = Len(b)
    /\ \A n \in 1..Len(a) :
         IF n = 3 THEN a[n].kind = "comment" /\ b[n].kind = "comment"
         ELSE a[n] = b[n]

\* the second call has written its file
GeneratedTwice == script = "generate" /\ run = 2 /\ pc = "generated"

\* the data steps of the two calls ended in the same way, table by table
SameFetches ==
    /\ Len(console) = 2 * Len(srcTables)
    /\ \A k \in 1..Len(srcTables) :
         console[k].says = console[Len(srcTables) + k].says

---------------------------------------------------------------------------
(* The file generateSQLFile writes, as text, given to parseSQLFile of       *)
(* CloudflareD1API.                                                        *)

\* the largest number of rows of the table of the written file
MaxFileRows == 2

\* lines 305-306: the INSERT statement of a row
insertSQL(tableName, columns, values) ==
    "INSERT INTO \"" \o tableName \o "\" ("
        \o join([n \in 1..Len(columns) |-> "\"" \o columns[n] \o "\""], ", ")
        \o ") VALUES (" \o join(values, ", ") \o ");"

\* lines 202-324: the text written for a source of one table, given the rows
\* of DESCRIBE and the rows of the table (one value per column)
sqlContent(tableName, columns, rows) ==
    LET fields == [n \in 1..Len(columns) |-> columns[n].Field]
        valuesOf(row) ==
            [n \in 1..Len(columns) |->
                insertValue(row[n], [Type |-> columns[n].Type])]
        sqlLines ==
            <<"PRAGMA foreign_keys = OFF;",
              "-- Generated from MySQL to SQLite migration",
              "-- Generated on: 2024-01-05T09:05:07.000Z",
              createTableSQL(tableName, columns, <<>>)>>
            \o [r \in 1..Len(rows) |->
                    insertSQL(tableName, fields, valuesOf(rows[r]))]
            \o <<"-- Migration completed: 1 tables, "
                    \o natToString(Len(rows)) \o " rows">>
    IN join(sqlLines, "\n") \o "\n"

\* the text values of the rows
RowTexts == {"a", "it's", "a;b", "a\\", "/* a", "-- a"}

\* the table of the written file: one column, and up to MaxFileRows rows of
\* one text value
InitReparse ==
    \E col \in TableColumns :
        \E n \in 0..MaxFileRows :
            \E texts \in [1..n -> RowTexts] :
                Called("reparse",
                       [columns |-> <<col>>,
                        rows |-> [r \in 1..n |-> <<Text(texts[r])>>]])

\* the file is written and then parsed
CallReparse ==
    Return("reparse", apiParseSQLContent(sqlContent("t", arg.columns, arg.rows)))

NextReparse == CallReparse

SpecReparse == InitReparse /\ [][NextReparse]_vars

\* the statements of the written file, each without its terminator: the
\* pragma, the CREATE TABLE and one INSERT per row
ReparsedAsWritten ==
    /\ Len(ret) = 1 + 1 + Len(arg.rows)
    /\ ret[1] = "PRAGMA foreign_keys = OFF"
    /\ startsWith(ret[2], "CREATE TABLE IF NOT EXISTS \"t\" (")
    /\ endsWith(ret[2], ")")
    /\ \A r \in 1..Len(arg.rows) :
         ret[2 + r] \o ";" =
            insertSQL("t", <<arg.columns[1].Field>>,
                      <<insertValue(arg.rows[r][1],
                                    [Type |-> arg.columns[1].Type])>>)

\* C30: parseSQLFile of CloudflareD1API finds in the written file the pragma,
\* the CREATE TABLE and one INSERT per row, in order, whatever the text
\* values of the rows hold.
C30_WrittenFileReparses ==
    (script = "reparse" /\ pc = "returned") => ReparsedAsWritten

\* the rows whose text neither ends with a backslash nor holds the opening
\* marker of a block comment are found
C30_PlainRowsReparse ==
    (script = "reparse" /\ pc = "returned"
        /\ \A r \in 1..Len(arg.rows) :
            /\ ~endsWith(arg.rows[r][1].value, "\\")
            /\ ~includes(arg.rows[r][1].value, "/*"))
        => ReparsedAsWritten

---------------------------------------------------------------------------
(* Properties of escapeForSQLite: decoding.                                *)

\* C31: no other text value has the literal of the encoded text value, so
\* the literal decides the value it was made from.
C31_TextEncodingInjective ==
    (script = "escapeForSQLite" /\ pc = "returned" /\ arg.type = "string") =>
        \A other \in Strings :
            escapeForSQLite(Text(other)) = ret => other = arg.value

---------------------------------------------------------------------------
(* Termination of pollImport: the full migration from the point where the  *)
(* import was initialised and the file uploaded.                           *)

\* the source of these runs: one table of one row
PollSource ==
    [tables |-> <<SourceNames[1]>>,
     rows |-> [t \in AllTables |-> IF t = SourceNames[1] THEN 1 ELSE 0]]

\* the file generated from it in this run
PollFile ==
    <<Pragma, Comment, Generated(1), Create(SourceNames[1]),
      Insert(SourceNames[1], 1), Comment>>

\* the run has generated and loaded the file, initialised the import and
\* uploaded the bytes
InitIngest ==
    /\ script = "full"
    /\ pc = "ingest"
    /\ run = 1
    /\ mysqlUrl = "ok" /\ cfEnv = TRUE
    /\ srcTables = PollSource.tables
    /\ srcRows = PollSource.rows
    /\ fileExists = TRUE
    /\ file = PollFile
    /\ d1 \in D1Inits
    /\ d1AfterRun = EmptyD1 /\ fileAfterRun = <<>>
    /\ log = <<ImportRequest("init", checksumOf(PollFile), <<>>, "", TRUE),
               ImportRequest("upload", 0, PollFile, "", TRUE)>>
    /\ conn = "open" /\ dbHandles = 0
    /\ options = NoOptions
    /\ statements = <<>> /\ i = 0
    /\ results = <<>> /\ successful = 0 /\ failed = 0 /\ errors = <<>>
    /\ sqlStatements = PollFile
    /\ schemas = <<>> /\ inserts = <<>> /\ tableNames = <<>>
    /\ existingTables = <<>> /\ matches = 0 /\ mismatches = 0
    /\ sqlBuffer = PollFile /\ md5 = checksumOf(PollFile)
    /\ bookmark \in Bookmarks
    /\ console = <<ConsoleLine("Generated", SourceNames[1], 1, 0)>>
    /\ arg = "" /\ ret = Len(PollFile)

NextPoll == FullIngest \/ PollImport \/ FullVerify

\* the destination answers every poll, and reports a status that is not
\* terminal MaxPolls times at most
SpecPoll == InitIngest /\ [][NextPoll]_vars /\ WF_log(PollImport)

\* the last request was a poll that reported a status that is not terminal
PolledPending ==
    /\ log # <<>>
    /\ log[Len(log)].op = "poll"
    /\ log[Len(log)].ok
    /\ log[Len(log)].status \notin Terminal

\* C32: pollImport polls again after every status that is not terminal,
\* however many polls there were, and it ends once the destination reports
\* completed or failed or answers without success.
C32_PollsUntilTerminal ==
    /\ [](PolledPending => pc = "poll")
    /\ [](pc = "poll" => <>(pc \in {"verifyD1RowCounts", Exit1}))

\* C32 witness: the destination reported MaxPolls times a status that is not
\* terminal and pollImport is still polling
C32_Witness ==
    /\ pc = "poll"
    /\ PendingPolls = MaxPolls
    /\ PolledPending

---------------------------------------------------------------------------
(* Properties of the full migration: the source without tables.            *)

\* C33: a run whose source has no table ends at the check of the statement
\* count: it does not load the file into the local staging database and
\* makes no request to the destination.
C33_EmptySourceFails ==
    (script = "full" /\ Len(srcTables) = 0) =>
        /\ pc \notin {"counts", "initImport", "upload", "ingest", "poll",
                      "verifyD1RowCounts"}
        /\ log = <<>>

---------------------------------------------------------------------------
(* The line scan of parseSQLFile on any text, terminated or not            *)
(* (part_000:28-69).                                                       *)

\* the largest number of lines of the text
MaxLines == 3

\* the lines the text is made of
ScanLines == {"", " ", "a", " a", "a;", "a; ", "--a;", " -- ", "PRAGMA a;",
              "a --", ";"}

\* the parser is given a text of any of these lines
InitLineScan ==
    \E n \in 0..MaxLines :
        \E t \in [1..n -> ScanLines] : Called("parseSQLFile", t)

SpecLineScan == InitLineScan /\ [][NextLineParser]_vars

\* line 44: a blank line, a line comment or a pragma line
skipped(line) ==
    \/ trim(line) = ""
    \/ startsWith(trim(line), "--")
    \/ startsWith(trim(line), "PRAGMA")

\* the trimmed lines of the statements from the k-th on
RECURSIVE linesOfStatements(_, _)
linesOfStatements(stmts, k) ==
    IF k > Len(stmts) THEN <<>>
    ELSE LET ls == split(stmts[k], "\n")
         IN [j \in 1..Len(ls) |-> trim(ls[j])]
                \o linesOfStatements(stmts, k + 1)

\* the trimmed lines of the text that are not skipped
keptLines ==
    LET kept == SelectSeq(arg, LAMBDA line : ~skipped(line))
    IN [j \in 1..Len(kept) |-> trim(kept[j])]

\* C34: the statements returned are made of the lines of the text that are
\* neither blank nor comments nor pragmas, all of them and in their order;
\* every statement but the last ends at the first of its lines that ends
\* with the terminator, and so does the last one unless the text ends with
\* a pending statement, which is then returned as the last statement.
C34_LineScan ==
    (script = "parseSQLFile" /\ pc = "returned") =>
        /\ linesOfStatements(ret, 1) = keptLines
        /\ \A s \in 1..Len(ret) :
            LET ls == split(ret[s], "\n")
            IN /\ ret[s] # ""
               /\ \A j \in 1..Len(ls) :
                    /\ ~skipped(ls[j])
                    /\ j < Len(ls) => ~endsWith(trim(ls[j]), ";")
               /\ s < Len(ret) => endsWith(ret[s], ";")
        /\ Len(ret) > 0 =>
            (endsWith(ret[Len(ret)], ";")
                <=> endsWith(keptLines[Len(keptLines)], ";"))

\* C34 witness: a comment was skipped, a statement closed and a pending
\* statement without terminator returned at the end of the text
C34_Witness ==
    /\ script = "parseSQLFile"
    /\ pc = "returned"
    /\ arg = <<"a;", "--a;", " a">>
    /\ ret = <<"a;", "a">>

---------------------------------------------------------------------------
(* extractTableName on the text of a statement (part_000:101-113).         *)

\* the characters \w matches
WordChars == UpperCase \o LowerCase \o "0123456789_"

\* the phrase, in any case (flag i), is in s at position k
phraseAt(s, k, phrase) ==
    /\ k + Len(phrase) - 1 <= Len(s)
    /\ toLowerCase(SubSeq(s, k, k + Len(phrase) - 1)) = toLowerCase(phrase)

\* (\w+) at position k of s: the longest run of word characters, "" if none
RECURSIVE wordAt(_, _)
wordAt(s, k) ==
    IF k > Len(s) \/ ~includes(WordChars, charAt(s, k)) THEN ""
    ELSE charAt(s, k) \o wordAt(s, k + 1)

\* (?:"([^"]+)"|(\w+)) at position k of s: the identifier captured, "" if
\* the group does not match there
identifierAt(s, k) ==
    LET rest == SubSeq(s, k + 1, Len(s))
        close == indexOf(rest, "\"")
    IN IF k > Len(s) THEN ""
       ELSE IF charAt(s, k) = "\"" /\ close > 1
       THEN SubSeq(rest, 1, close - 1)
       ELSE wordAt(s, k)

\* lines 102, 107: String.prototype.match with phrase, an optional
\* qualifier and the identifier group: what the leftmost match captures,
\* "" when the pattern does not match
matchIdentifier(s, phrase, qualifier) ==
    LET after(k) == k + Len(phrase)
        qualified(k) ==
            IF qualifier # "" /\ phraseAt(s, after(k), qualifier)
            THEN identifierAt(s, after(k) + Len(qualifier)) ELSE ""
        captured(k) ==
            IF ~phraseAt(s, k, phrase) THEN ""
            ELSE IF qualified(k) # "" THEN qualified(k)
            ELSE identifierAt(s, after(k))
        hits == {k \in 1..Len(s) : captured(k) # ""}
    IN IF hits = {} THEN ""
       ELSE captured(CHOOSE k \in hits : \A j \in hits : k <= j)

\* lines 101-113: the create-table pattern is tried first, anywhere in the
\* statement, then the insert-into pattern; null when neither matches
extractTableNameOfText(statement) ==
    LET createMatch == matchIdentifier(statement, "CREATE TABLE ",
                                       "IF NOT EXISTS ")
        insertMatch == matchIdentifier(statement, "INSERT INTO ", "")
    IN IF createMatch # "" THEN createMatch
       ELSE IF insertMatch # "" THEN insertMatch
       ELSE "null"

\* the largest number of values of a statement
MaxValues == 2

\* the names of the tables
TableIdents == {"t", "u_1"}

\* how a name is written: quoted or bare
Written(t) == {"\"" \o t \o "\"", t}

\* the leading keyword phrases, in the two cases
CreatePhrases == {"CREATE TABLE ", "create table ",
                  "CREATE TABLE IF NOT EXISTS "}
InsertPhrases == {"INSERT INTO ", "insert into "}

\* the values of a statement
ValueTexts == {"1", "'a'", "'CREATE TABLE x'", "'create table \"x\"'",
               "'INSERT INTO y'", "'table'"}

\* extractTableName is called with a schema or an insert statement
InitExtract ==
    \E t \in TableIdents, n \in 0..MaxValues :
        \E w \in Written(t), p \in CreatePhrases \cup InsertPhrases,
           v \in [1..n -> ValueTexts] :
            Called("extractTableName",
                   p \o w \o (IF p \in InsertPhrases THEN " VALUES (" ELSE " (")
                     \o join(v, ", ") \o ");")

CallExtract == Return("extractTableName", extractTableNameOfText(arg))

NextExtract == CallExtract

SpecExtract == InitExtract /\ [][NextExtract]_vars

\* the statement starts with one of the phrases followed by the name t
StartsWithName(phrases, t) ==
    \E p \in phrases, w \in Written(t) : startsWith(arg, p \o w \o " ")

\* C35: for a statement that starts with INSERT INTO and the name t, and for
\* one that starts with CREATE TABLE [IF NOT EXISTS] and the name t,
\* extractTableName returns t, whatever the values of the statement hold.
C35_NameAfterLeadingPhrase ==
    (script = "extractTableName" /\ pc = "returned") =>
        \A t \in TableIdents :
            StartsWithName(CreatePhrases \cup InsertPhrases, t) => ret = t

---------------------------------------------------------------------------
(* The summary of verifyMigration (part_000:352-362).                      *)

\* the lines of the console that say this
Said(says) == SelectSeq(console, LAMBDA l : l.says = says)

\* C36: the perfect migration line is printed only when every expected
\* table has a match line; while the tables are compared, matches,
\* mismatches and the tables that could not be verified add up to the tables
\* compared so far (all the expected tables at the end), and a table that
\* could not be verified has no match line.
C36_PerfectOnlyIfAllMatch ==
    /\ Said("Perfect migration") # <<>> =>
         \A n \in 1..Len(tableNames) :
            \E k \in 1..Len(console) :
                /\ console[k].says = "match"
                /\ console[k].tbl = tableNames[n]
    /\ pc = "verifyTable" =>
         matches + mismatches + Len(Said("Could not verify")) = i
    /\ \A k, m \in 1..Len(console) :
         console[k].says = "Could not verify" /\ console[m].says = "match"
            => console[k].tbl # console[m].tbl

---------------------------------------------------------------------------
(* The counters uploadSQLFile returns (cloudflare-d1-api.js:172-224).      *)

\* C37: when uploadSQLFile returns, successful + failed is the number of
\* parsed statements, successful counts the submissions that succeeded and
\* failed those that failed, each statement submitted once, the error list
\* has one entry for each failed statement, and in strict mode failed is 0.
C37_CountersAddUp ==
    (script = "upload" /\ pc = "returned") =>
        /\ statements = apiParseSQLFile(file)
        /\ successful + failed = Len(statements)
        /\ Submitted = statements
        /\ successful = CountIf(log, LAMBDA r : r.ok)
        /\ failed = CountIf(log, LAMBDA r : ~r.ok)
        /\ Len(errors) = failed
        /\ [n \in 1..Len(errors) |-> errors[n].statement] = FailedSubmitted
        /\ stopOnErrorOf(options) => failed = 0

\* C37 witness: a tolerant call returned with two statements counted
\* successful and one failed, the failed one in the error list
C37_Witness ==
    /\ script = "upload"
    /\ pc = "returned"
    /\ ~stopOnErrorOf(options)
    /\ successful = 2
    /\ failed = 1
    /\ Len(errors) = 1

---------------------------------------------------------------------------
(* The life of the stream file: generateSQLFile called by the start script *)
(* (mysql-to-sqlite.js:192-199, 320-331), and the migrate script run       *)
(* afterwards (part_000:211-222).                                          *)

\* the migrate script is run after the start script ended, with or without
\* a file (part_000:387)
MigrateLater ==
    /\ script = "generate"
    /\ pc \in {"generated", Exit1}
    /\ run = 1
    /\ run' = 2
    /\ fileAfterRun' = file
    /\ script' = "migrate"
    /\ pc' = "main"
    /\ conn' = "none"
    /\ sqlStatements' = <<>>
    /\ i' = 0
    /\ console' = <<>>
    /\ UNCHANGED <<pureVars, importVars, mysqlUrl, cfEnv, srcTables, srcRows,
                   options, d1AfterRun, fsVars, destVars, dbHandles,
                   statements, uploadVars, migVars>>

NextStreamFile ==
    \/ GenStart \/ GenSchema \/ GenData \/ GenWrite
    \/ MigrateLater \/ MigrateMain \/ MigrateStart \/ MigrateGenerated

SpecStreamFile == InitGenerate /\ [][NextStreamFile]_vars

\* C38: while statements are generated there is no file, after a failed
\* generation there is none either, and after a successful one the file holds
\* the statements emitted by that generation; the file changes only when
\* generateSQLFile removes it at its start and when it writes it at its end;
\* migrateSQLiteToD1 goes straight to parsing when the file exists at its
\* start and otherwise generates it (or fails before it could).
C38_NoPartialOrStaleFile ==
    /\ [](/\ pc \in {"genSchema", "genData"} => ~fileExists
          /\ pc = Exit1 => ~fileExists
          /\ pc = "generated" => fileExists /\ file = sqlStatements
          /\ ~fileExists => file = <<>>)
    /\ [][/\ (fileExists /\ ~fileExists') => pc = "generateSQLFile"
          /\ (fileExists' /\ file' # file) =>
                /\ pc = "genData" /\ pc' = "generated"
                /\ ~fileExists
          /\ pc = "migrateSQLiteToD1" =>
                IF fileExists
                THEN pc' = "parse" /\ file' = file /\ fileExists'
                ELSE pc' \in {"generateSQLFile", Exit1}]_<<pc, fsVars>>

\* C38 witness: the start script found an old file, its generation failed,
\* and the migrate script run afterwards found no file and generated one
\* with the statements of a table
C38_Witness ==
    /\ script = "migrate"
    /\ run = 2
    /\ fileAfterRun = <<>>
    /\ pc = "generated"
    /\ fileExists
    /\ file = sqlStatements
    /\ Len(file) > 4

---------------------------------------------------------------------------
(* PRIMARY KEY and AUTOINCREMENT in the column clauses                     *)
(* (mysql-to-sqlite.js:217-240).                                           *)

\* the rows DESCRIBE returns for the k-th column of a table: a key column is
\* NOT NULL, and an auto_increment column is an integer column with a key
KeyColumns(k) ==
    { col \in [Field : {IF k = 1 THEN "id" ELSE "col" \o natToString(k)},
               Type : {"int(11)", "varchar(9)"},
               Null : {"NO"},
               Key : {"PRI", "MUL", ""},
               Extra : {"", "auto_increment"},
               Default : {Null}] :
        col.Extra = "auto_increment" => col.Type = "int(11)" /\ col.Key # "" }

\* the tables: up to MaxColumns columns, at most one of them auto_increment
KeyTables ==
    UNION { { columns \in [1..n -> UNION {KeyColumns(k) : k \in 1..n}] :
                /\ \A k \in 1..n : columns[k] \in KeyColumns(k)
                /\ \A j, k \in 1..n :
                    (columns[j].Extra = "auto_increment"
                        /\ columns[k].Extra = "auto_increment") => j = k }
            : n \in 1..MaxColumns }

InitKeyTable ==
    \E columns \in KeyTables :
        Called("createTableSQL", [columns |-> columns, rows |-> <<>>])

SpecKeyTable == InitKeyTable /\ [][NextCreateTable]_vars

\* C39: at most one column clause of a CREATE TABLE statement carries
\* PRIMARY KEY, and a clause with AUTOINCREMENT is an INTEGER clause that
\* carries PRIMARY KEY too.
C39_OnePrimaryKeyClause ==
    (script = "createTableSQL" /\ pc = "returned") =>
        LET lines == split(ret, "\n")
        IN /\ \A j, k \in 1..Len(lines) :
                (includes(lines[j], "PRIMARY KEY")
                    /\ includes(lines[k], "PRIMARY KEY")) => j = k
           /\ \A k \in 1..Len(lines) :
                includes(lines[k], "AUTOINCREMENT") =>
                    /\ includes(lines[k], " INTEGER ")
                    /\ includes(lines[k], "PRIMARY KEY")

---------------------------------------------------------------------------
(* All the entry points together.                                          *)

Init == InitUpload \/ InitMigrate \/ InitFull

Next == NextUpload \/ NextMigrate \/ NextFull

Spec == Init /\ [][Next]_vars

====
